---- MODULE Spec2Model ----
(***************************************************************************)
(* The capture / encode / decode / validate pipeline of the WebCodecs      *)
(* liveness demo: WebCodecsOrchestrator.execute() driving the              *)
(* FrameCaptureService (with its background readFrames() loop), the        *)
(* ScreenFlashController, the VideoEncoderService, the VideoDecoderService *)
(* and the optional OpenAIFaceDetectionService.                            *)
(*                                                                         *)
(* JavaScript runs each piece of code between two awaits to completion, so *)
(* one action of the model is one such piece: the code a task runs from    *)
(* the point where an awaited promise settles to its next await.  The      *)
(* orchestrator and the readFrames() loop are the two tasks; the encoder's *)
(* and the decoder's output callbacks are steps of the codec runtime.      *)
(***************************************************************************)
EXTENDS Integers, Sequences, FiniteSets, TLC

\* ---------------------------------------------------------------- constants
\* WebCodecsOrchestrator
FRAME_COUNT == 20
TOTAL_DURATION_MS == 10000
\* The mutant of FLASH_DISPLAY_DELAY_MS: no settle delay.
NoSettleDelay == 50 - 50
FLASH_DISPLAY_DELAY_MS == 50
\* The mutant of VALIDATION_FRAME_SAMPLING_RATE: every 4th step is sampled.
SamplingRateFour == 2 + 2
VALIDATION_FRAME_SAMPLING_RATE == 5
\* The mutant of FRAME_INTERVAL_MS: a step every 400 ms.
FrameIntervalShort == 500 - 100
FRAME_INTERVAL_MS == TOTAL_DURATION_MS \div FRAME_COUNT
FLASH_PATTERN == <<0, 0, 1, 1, 0, 0, 1, 1, 0, 0, 1, 1, 0, 0, 1, 1, 0, 0, 1, 1>>
\* FrameCaptureService
FIRST_FRAME_TIMEOUT_MS == 5000
FIRST_FRAME_POLL_INTERVAL_MS == 50
\* VideoDecoderService
FRAME_PLAYBACK_INTERVAL_MS == 500

\* ------------------------------------------------------------------- bounds
\* Frames the camera track delivers to reader.read() during one run.
MaxSourceFrames == 3
\* Frames submitted to the encoder whose chunk the output callback has not
\* delivered yet (the encoder runs asynchronously, at most this far behind).
MaxEncodeQueue == 2
\* Calls a caller other than execute() makes on a service.
MaxClientCalls == 4
\* Calls of execute() on one orchestrator.
MaxRuns == 2
\* Video input devices enumerateDevices() reports.
MaxDevices == 2
\* The largest |confidence| (in tenths) of an answer given to analyzeFrame()
\* by a caller other than execute().
MaxRawConfidence == 25

\* ------------------------------------------------------------------ values
NULL == "null"
NoFrame == 0
NoError == "none"
\* The capture loop holds no frame.
NoCapture == [id |-> 0, src |-> 0, srcOpen |-> FALSE]
\* No call has been made on a service from outside execute().
NoCall == [op |-> "none", st |-> "none", err |-> NoError, n |-> 0, chunks |-> <<>>]

\* FlashColor (IScreenFlash.ts)
BLACK == "BLACK"
WHITE == "WHITE"

\* The errors a phase of execute() can fail with.
ErrNoDevice == "No video devices available"
ErrGetUserMedia == "getUserMedia rejected"
ErrPermissionDenied == "Camera permission denied. Please allow camera access to continue."
ErrFirstFrameTimeout == "Timeout waiting for first frame"
ErrCodecUnsupported == "Codec vp8 is not supported"
ErrNoFrame == "No frame available to capture"
ErrNoVideoTracks == "No video tracks found in media stream"
ErrEncoderNotInit == "Encoder not initialized"
ErrEncoderState == "Encoder is in closed state"
ErrFlushState == "Cannot flush encoder in closed state"
ErrFlushRejected == "encoder.flush() rejected"
ErrNoChunks == "No encoded chunks available"
ErrNoStream == "Media stream not initialized"
ErrDecoderUnsupported == "Decoder codec vp8 is not supported"
ErrDecoderNotInit == "Decoder not initialized"
ErrDecodeRejected == "decoder.flush() rejected"
ErrNoContext == "Failed to get canvas 2D context"
ErrApiTimeout == "OpenAI API request timed out after 30 seconds"
ErrApiKey == "Invalid or missing OpenAI API key. Please check your API key."
ErrRateLimit == "OpenAI API rate limit exceeded. Please wait and try again."

VARIABLES
    \* WebCodecsOrchestrator
    pc,                 \* where execute() is
    i,                  \* loop index of captureAndEncodeFrames / validate / render
    error,              \* the error caught by execute()'s catch clause
    mediaStream,        \* this.mediaStream: NULL or "stream"
    validationResults,  \* this.validationResults
    capturedFramesForValidation, \* this.capturedFramesForValidation (sample ids)
    faceDetectionService, \* constructor argument: NULL or "openai"
    frame,              \* the local `frame` of the capture loop: [id, src, srcOpen], or NoCapture
    \* the camera track of the acquired stream
    trackState,         \* "none" | "live" | "ended"
    trackStops,         \* calls of track.stop()
    \* FrameCaptureService
    videoTrack,         \* this.videoTrack: NULL or "track"
    reader,             \* this.reader: NULL or "reader"
    currentFrame,       \* this.currentFrame: a source frame id, NoFrame = null
    isReading,          \* this.isReading
    lockId,             \* the gates (promises) frameUpdateLock has been set to
    pendingGates,       \* ids of the gates created and not yet resolved
    waited,             \* ms waitForFirstFrame() has slept
    \* the readFrames() loop
    rpc,                \* "none" | "read" | "lock" | "exit"
    rvalue,             \* its local `value`: the frame read(), NoFrame = none
    rawait,             \* the unresolved gate it awaits, 0 = a resolved promise
    cancelled,          \* reader.cancel() was called on the loop's stream
    produced,           \* frames the track has delivered so far
    srcClosed,          \* source frame id -> calls of close() on it
    \* VideoEncoderService
    encoder,            \* NULL | "configured" | "closed"
    encodedChunks,      \* this.encodedChunks
    encQueue,           \* frames submitted, chunk not yet emitted
    \* VideoDecoderService
    decoder,            \* NULL | "configured" | "closed"
    decodedFrames,      \* this.decodedFrames (decoded frame ids)
    decQueue,           \* chunks submitted, frame not yet emitted
    decoded,            \* decoded frame id -> [chunk, closed]
    drawn,              \* the draws on the canvas, in order: [frame, at]
    \* ScreenFlashController
    overlay,            \* NULL | "div": this.overlay
    display,            \* overlay.style.display
    color,              \* overlay.style.backgroundColor
    \* what the caller and the frames' owner observe
    firstError,         \* the first error a phase of this run threw
    rejected,           \* the error execute()'s promise rejected with
    responses,          \* what each analyzeFrame() call of this run met, in order
    cleanupRuns,        \* completed calls of cleanup() in this run
    captured,           \* capture id -> [closed]: the frames captureFrame() returned
    sampled,            \* sample id -> [of, closed]: the clones kept for validation
    slept,              \* ms the sleep() calls of the current phase have taken
    call,               \* the last call made on a service from outside execute()
    runs,               \* calls of execute() on this orchestrator so far
    onValidationCalls,  \* what onValidation was called with in this run, in order
    timeline,           \* the capture phase's calls, in order: [ev, step, arg, at]
    progress            \* the percentages passed to onProgress in this run, in order

orchVars == <<pc, i, error, mediaStream, validationResults,
              capturedFramesForValidation, faceDetectionService, frame>>
trackVars == <<trackState, trackStops>>
fcsVars == <<videoTrack, reader, currentFrame, isReading, lockId, pendingGates, waited>>
loopVars == <<rpc, rvalue, rawait, cancelled, produced, srcClosed>>
encVars == <<encoder, encodedChunks, encQueue>>
decVars == <<decoder, decodedFrames, decQueue, decoded, drawn>>
flashVars == <<overlay, display, color>>
ghostVars == <<runs, onValidationCalls, timeline, progress>>
obsVars == <<firstError, rejected, responses, cleanupRuns, captured, sampled,
             slept, call, ghostVars>>
vars == <<orchVars, trackVars, fcsVars, loopVars, encVars, decVars, flashVars, obsVars>>

\* ------------------------------------------------------------ construction
\* The state after `new WebCodecsOrchestrator(...)` in Application.start():
\* every service freshly constructed, the flash overlay created hidden, and
\* the face detection service present or null.
Init ==
    /\ pc = "idle" /\ i = 0 /\ error = NoError /\ mediaStream = NULL
    /\ validationResults = <<>> /\ capturedFramesForValidation = <<>>
    /\ faceDetectionService \in {NULL, "openai"}
    /\ frame = NoCapture
    /\ trackState = "none" /\ trackStops = 0
    /\ videoTrack = NULL /\ reader = NULL /\ currentFrame = NoFrame
    /\ isReading = FALSE /\ lockId = 0 /\ pendingGates = {} /\ waited = 0
    /\ rpc = "none" /\ rvalue = NoFrame /\ rawait = 0 /\ cancelled = FALSE
    /\ produced = 0 /\ srcClosed = [f \in 1..MaxSourceFrames |-> 0]
    /\ encoder = NULL /\ encodedChunks = <<>> /\ encQueue = <<>>
    /\ decoder = NULL /\ decodedFrames = <<>> /\ decQueue = <<>>
    /\ decoded = <<>> /\ drawn = <<>>
    /\ overlay = "div" /\ display = "none" /\ color = "none"
    /\ firstError = NoError /\ rejected = NoError /\ responses = <<>>
    /\ cleanupRuns = 0
    /\ captured = <<>> /\ sampled = <<>>
    /\ slept = 0 /\ call = NoCall
    /\ runs = 0 /\ onValidationCalls = <<>> /\ timeline = <<>>
    /\ progress = <<>>

\* ----------------------------------------------------------------- helpers
\* VideoFrame.close(): one more call of close() on frame f of log `log`.
CloseIn(log, f) == [log EXCEPT ![f] = [@ EXCEPT !.closed = @ + 1]]

\* close() on source frame f (NoFrame: the `if (this.currentFrame)` guard).
CloseSrc(closed, f) == IF f = NoFrame THEN closed ELSE [closed EXCEPT ![f] = @ + 1]

\* One call of the capture phase: setColor(arg) / captureFrame() returning
\* frame arg (0: it threw) / encodeFrame(frame arg), in step `step`, after
\* `at` ms of sleep.
Event(ev, step, arg, at) == [ev |-> ev, step |-> step, arg |-> arg, at |-> at]

\* Math.round(num / den) for num, den > 0: to the nearest integer, a half up.
RoundHalfUp(num, den) == (2 * num + den) \div (2 * den)

\* The step's percentage with Math.floor in place of Math.round.
StepProgressFloor(k) == (20 * FRAME_COUNT + (k + 1) * 50) \div FRAME_COUNT
\* progress = 20 + ((k + 1) / FRAME_COUNT) * 50; Math.round(progress): what
\* capture step k reports after its encodeFrame().
StepProgress(k) == RoundHalfUp(20 * FRAME_COUNT + (k + 1) * 50, FRAME_COUNT)

\* onProgress?.(p, ...) for each p of ps, in order.
Report(ps) == progress' = progress \o ps

\* execute() goes on to p without an exception.
Goto(p) == pc' = p /\ error' = error /\ firstError' = firstError

\* A phase throws e: control reaches execute()'s catch clause, which binds e.
Throw(e) ==
    /\ pc' = "catch"
    /\ error' = e
    /\ firstError' = IF firstError = NoError THEN e ELSE firstError

\* ------------------------------------------- FrameCaptureService.readFrames
\* `await this.reader.read()` resolves with a frame; the loop then awaits
\* this.frameUpdateLock (the gate current at that moment).
ReaderRead ==
    /\ rpc = "read" /\ ~cancelled /\ trackState = "live"
    /\ produced < MaxSourceFrames
    /\ produced' = produced + 1
    /\ rvalue' = produced + 1
    /\ rawait' = IF lockId \in pendingGates THEN lockId ELSE 0
    /\ rpc' = "lock"
    /\ UNCHANGED <<cancelled, srcClosed>>
    /\ UNCHANGED <<orchVars, trackVars, fcsVars, encVars, decVars, flashVars, obsVars>>

\* reader.cancel() makes the pending read() resolve with done = true: break.
ReaderDone ==
    /\ rpc = "read" /\ cancelled
    /\ rpc' = "exit"
    /\ UNCHANGED <<rvalue, rawait, cancelled, produced, srcClosed>>
    /\ UNCHANGED <<orchVars, trackVars, fcsVars, encVars, decVars, flashVars, obsVars>>

\* The mutant of ReaderStore: the previous frame is closed and the slot is
\* left pointing at it (the new frame is dropped).
ReaderStoreKeepsClosed ==
    /\ rpc = "lock" /\ rawait \notin pendingGates
    /\ srcClosed' = CloseSrc(CloseSrc(srcClosed, currentFrame), rvalue)
    /\ currentFrame' = IF currentFrame = NoFrame THEN rvalue ELSE currentFrame
    /\ rvalue' = NoFrame /\ rawait' = 0
    /\ rpc' = IF isReading /\ reader # NULL THEN "read" ELSE "exit"
    /\ UNCHANGED <<cancelled, produced>>
    /\ UNCHANGED <<videoTrack, reader, isReading, lockId, pendingGates, waited>>
    /\ UNCHANGED <<orchVars, trackVars, encVars, decVars, flashVars, obsVars>>

\* The mutant of ReaderStore: the previous frame is not closed.
ReaderStoreNoClose ==
    /\ rpc = "lock" /\ rawait \notin pendingGates
    /\ currentFrame' = rvalue
    /\ rvalue' = NoFrame /\ rawait' = 0
    /\ rpc' = IF isReading /\ reader # NULL THEN "read" ELSE "exit"
    /\ UNCHANGED <<cancelled, produced, srcClosed>>
    /\ UNCHANGED <<videoTrack, reader, isReading, lockId, pendingGates, waited>>
    /\ UNCHANGED <<orchVars, trackVars, encVars, decVars, flashVars, obsVars>>

\* The awaited gate is resolved: close the previous frame, store the new one,
\* then test the loop condition and either read() again or leave the loop.
ReaderStore ==
    /\ rpc = "lock" /\ rawait \notin pendingGates
    /\ srcClosed' = CloseSrc(srcClosed, currentFrame)
    /\ currentFrame' = rvalue
    /\ rvalue' = NoFrame /\ rawait' = 0
    /\ rpc' = IF isReading /\ reader # NULL THEN "read" ELSE "exit"
    /\ UNCHANGED <<cancelled, produced>>
    /\ UNCHANGED <<videoTrack, reader, isReading, lockId, pendingGates, waited>>
    /\ UNCHANGED <<orchVars, trackVars, encVars, decVars, flashVars, obsVars>>

\* ----------------------------------------- FrameCaptureService.captureFrame
\* The mutant of ReleaseLock: no finally clause, the gate stays unresolved.
ReleaseLockMissing(gates, g) == gates

\* finally { releaseLock() }
ReleaseLock(gates, g) == gates \ {g}

\* The frame captureFrame() returns: a clone, with a new id, of the frame f in
\* the slot.  srcOpen records whether f was unreleased when it was cloned.
CloneOf(f) == [id |-> Len(captured) + 1, src |-> f, srcOpen |-> srcClosed[f] = 0]

\* captureFrame() on a non-empty slot: install gate lockId + 1, clone, release.
CaptureFrameOk ==
    /\ currentFrame # NoFrame
    /\ lockId' = lockId + 1
    /\ frame' = CloneOf(currentFrame)
    /\ captured' = Append(captured, [closed |-> 0])
    /\ pendingGates' = ReleaseLock(pendingGates \cup {lockId + 1}, lockId + 1)
\* The 50 ms sleep of the capture loop ends and captureFrame() is called: it
\* throws when the slot is empty, else returns the clone.
CaptureFrame ==
    /\ pc = "capture"
    /\ slept' = slept + FLASH_DISPLAY_DELAY_MS
    /\ IF currentFrame = NoFrame
       THEN /\ Throw(ErrNoFrame)
            /\ UNCHANGED <<lockId, pendingGates, captured, frame>>
       ELSE /\ CaptureFrameOk
            /\ Goto("encode")
    /\ UNCHANGED <<i, mediaStream, validationResults, capturedFramesForValidation,
                   faceDetectionService>>
    /\ UNCHANGED <<videoTrack, reader, currentFrame, isReading, waited>>
    /\ timeline' = Append(timeline,
                          Event("captureFrame", i,
                                IF currentFrame = NoFrame THEN 0 ELSE Len(captured) + 1,
                                slept + FLASH_DISPLAY_DELAY_MS))
    /\ UNCHANGED <<rejected, responses, cleanupRuns, sampled, call, runs, onValidationCalls>>
    /\ UNCHANGED <<trackVars, loopVars, encVars, decVars, flashVars>>
    /\ UNCHANGED progress

\* ------------------------------------------------- ScreenFlashController
\* show() / hide(): a warning and nothing else once the overlay is gone.
FlashShow == IF overlay = NULL THEN display ELSE "block"
\* hide() that leaves the display style as it is.
FlashHideKeeps == display
FlashHide == IF overlay = NULL THEN display ELSE "none"
\* setColor(): FLASH_PATTERN[k] = 0 is BLACK, 1 is WHITE.
FlashColorOf(k) == IF FLASH_PATTERN[k + 1] = 0 THEN BLACK ELSE WHITE
FlashSetColor(c) == IF overlay = NULL THEN color ELSE c

\* ------------------------------------------------------- execute(), phases
\* execute() is called on an idle orchestrator: Step 1, initializeCamera().
Execute ==
    /\ pc = "idle"
    /\ Goto("acquire")
    /\ runs' = runs + 1
    /\ UNCHANGED <<i, mediaStream, validationResults, capturedFramesForValidation,
                   faceDetectionService, frame>>
    /\ UNCHANGED <<rejected, responses, cleanupRuns, captured, sampled, slept, call,
                   onValidationCalls, timeline>>
    /\ UNCHANGED <<trackVars, fcsVars, loopVars, encVars, decVars, flashVars>>
    /\ UNCHANGED progress

\* initializeCamera(): getBestDevice() and getMediaStream() settle.  On
\* success frameCaptureService.initialize(stream) runs up to the first sleep
\* of waitForFirstFrame(): it takes the video track, creates the reader,
\* starts readFrames() (which runs up to its first read()) and tests the slot.
AcquireSource ==
    /\ pc = "acquire"
    /\ \E outcome \in {"ok", ErrNoDevice, ErrGetUserMedia}:
        IF outcome # "ok"
        THEN /\ Throw(outcome)
             /\ UNCHANGED <<mediaStream, trackState, videoTrack, reader, isReading,
                            waited, rpc, cancelled>>
        ELSE /\ mediaStream' = "stream"
             /\ trackState' = "live"
             /\ videoTrack' = "track"
             /\ reader' = "reader"
             /\ isReading' = TRUE
             /\ rpc' = "read"
             /\ cancelled' = FALSE
             /\ waited' = 0
             /\ Goto(IF currentFrame = NoFrame THEN "waitFirst" ELSE "initEncoder")
    /\ UNCHANGED <<i, validationResults, capturedFramesForValidation,
                   faceDetectionService, frame>>
    /\ UNCHANGED <<trackStops, currentFrame, lockId, pendingGates>>
    /\ UNCHANGED <<rvalue, rawait, produced, srcClosed>>
    /\ UNCHANGED <<rejected, responses, cleanupRuns, captured, sampled, slept, call, runs, onValidationCalls, timeline>>
    /\ UNCHANGED <<encVars, decVars, flashVars>>
    /\ Report(<<0>>)

\* waitForFirstFrame() without the timeout: it sleeps until a frame is there.
WaitForFirstFrameNoTimeout ==
    /\ pc = "waitFirst"
    /\ IF currentFrame = NoFrame
       THEN /\ waited' = waited
            /\ Goto("waitFirst")
       ELSE /\ waited' = 0
            /\ Goto("initEncoder")
    /\ UNCHANGED <<i, mediaStream, validationResults, capturedFramesForValidation,
                   faceDetectionService, frame>>
    /\ UNCHANGED <<videoTrack, reader, currentFrame, isReading, lockId, pendingGates>>
    /\ UNCHANGED <<rejected, responses, cleanupRuns, captured, sampled, slept, call, ghostVars>>
    /\ UNCHANGED <<trackVars, loopVars, encVars, decVars, flashVars>>
\* The mutant of WaitForFirstFrame: no test of the slot after the loop.
WaitForFirstFrameNoCheck ==
    /\ pc = "waitFirst"
    /\ IF currentFrame = NoFrame
          /\ waited + FIRST_FRAME_POLL_INTERVAL_MS < FIRST_FRAME_TIMEOUT_MS
       THEN /\ waited' = waited + FIRST_FRAME_POLL_INTERVAL_MS
            /\ Goto("waitFirst")
       ELSE /\ waited' = 0
            /\ Goto("initEncoder")
    /\ UNCHANGED <<i, mediaStream, validationResults, capturedFramesForValidation,
                   faceDetectionService, frame>>
    /\ UNCHANGED <<videoTrack, reader, currentFrame, isReading, lockId, pendingGates>>
    /\ UNCHANGED <<rejected, responses, cleanupRuns, captured, sampled, slept, call, ghostVars>>
    /\ UNCHANGED <<trackVars, loopVars, encVars, decVars, flashVars>>

\* waitForFirstFrame(): a 50 ms sleep ends and the loop condition is tested
\* again; the loop ends on a frame in the slot or on the timeout.
WaitForFirstFrame ==
    /\ pc = "waitFirst"
    /\ IF currentFrame = NoFrame
          /\ waited + FIRST_FRAME_POLL_INTERVAL_MS < FIRST_FRAME_TIMEOUT_MS
       THEN /\ waited' = waited + FIRST_FRAME_POLL_INTERVAL_MS
            /\ Goto("waitFirst")
       ELSE /\ waited' = 0
            /\ IF currentFrame = NoFrame
               THEN Throw(ErrFirstFrameTimeout)
               ELSE Goto("initEncoder")
    /\ UNCHANGED <<i, mediaStream, validationResults, capturedFramesForValidation,
                   faceDetectionService, frame>>
    /\ UNCHANGED <<videoTrack, reader, currentFrame, isReading, lockId, pendingGates>>
    /\ UNCHANGED <<rejected, responses, cleanupRuns, captured, sampled, slept, call, ghostVars>>
    /\ UNCHANGED <<trackVars, loopVars, encVars, decVars, flashVars>>

\* The mutant of InitializeEncoder: the encoder is created and configured
\* before the support check.
InitializeEncoderCreatesFirst ==
    /\ pc = "initEncoder"
    /\ IF mediaStream = NULL
       THEN Throw(ErrNoStream) /\ UNCHANGED encVars
       ELSE \E supported \in BOOLEAN:
               IF ~supported
               THEN /\ Throw(ErrCodecUnsupported)
                    /\ encoder' = "configured"
                    /\ UNCHANGED <<encodedChunks, encQueue>>
               ELSE /\ encodedChunks' = <<>>
                    /\ encQueue' = <<>>
                    /\ encoder' = "configured"
                    /\ Goto("startCapture")
    /\ UNCHANGED <<i, mediaStream, validationResults, capturedFramesForValidation,
                   faceDetectionService, frame>>
    /\ UNCHANGED <<rejected, responses, cleanupRuns, captured, sampled, slept, call, runs, onValidationCalls, timeline>>
    /\ UNCHANGED <<trackVars, fcsVars, loopVars, decVars, flashVars>>
    /\ Report(<<10, 10>>)

\* Step 2, initializeEncoder(): VideoEncoder.isConfigSupported() settles; the
\* encoder is created and configured only when the config is supported.
InitializeEncoder ==
    /\ pc = "initEncoder"
    /\ IF mediaStream = NULL
       THEN Throw(ErrNoStream) /\ UNCHANGED encVars
       ELSE \E supported \in BOOLEAN:
               IF ~supported
               THEN Throw(ErrCodecUnsupported) /\ UNCHANGED encVars
               ELSE /\ encodedChunks' = <<>>
                    /\ encQueue' = <<>>
                    /\ encoder' = "configured"
                    /\ Goto("startCapture")
    /\ UNCHANGED <<i, mediaStream, validationResults, capturedFramesForValidation,
                   faceDetectionService, frame>>
    /\ UNCHANGED <<rejected, responses, cleanupRuns, captured, sampled, slept, call, runs, onValidationCalls, timeline>>
    /\ UNCHANGED <<trackVars, fcsVars, loopVars, decVars, flashVars>>
    /\ Report(<<10, 10>>)

\* Step 3, captureAndEncodeFrames() up to the first sleep: show the overlay,
\* reset the sample list, set the colour of step 0, sleep the settle delay.
StartCapture ==
    /\ pc = "startCapture"
    /\ display' = FlashShow
    /\ capturedFramesForValidation' = <<>>
    /\ i' = 0
    /\ color' = FlashSetColor(FlashColorOf(0))
    /\ slept' = 0
    /\ timeline' = <<Event("setColor", 0, FLASH_PATTERN[1], 0)>>
    /\ Goto("capture")
    /\ UNCHANGED <<mediaStream, validationResults, faceDetectionService, frame>>
    /\ UNCHANGED <<rejected, responses, cleanupRuns, captured, sampled, call,
                   runs, onValidationCalls>>
    /\ UNCHANGED overlay
    /\ UNCHANGED <<trackVars, fcsVars, loopVars, encVars, decVars>>
    /\ Report(<<20, 20>>)
\* The mutant of KeyFrame: no keyframe is ever requested.
KeyFrameNever(k) == FALSE

\* encodeFrame(frame, i === 0): the keyframe request of capture step k.
KeyFrame(k) == k = 0

\* The mutant of EncodeFrame: the submitted frame is not closed.
EncodeFrameNoClose ==
    /\ pc = "encode"
    /\ encoder = "configured" => Len(encQueue) < MaxEncodeQueue
    /\ LET sample == faceDetectionService # NULL
                     /\ i % VALIDATION_FRAME_SAMPLING_RATE = 0
       IN /\ capturedFramesForValidation' =
                IF sample THEN Append(capturedFramesForValidation, Len(sampled) + 1)
                          ELSE capturedFramesForValidation
          /\ sampled' = IF sample THEN Append(sampled, [of |-> frame.id, closed |-> 0])
                                  ELSE sampled
    /\ IF encoder = NULL
       THEN Throw(ErrEncoderNotInit) /\ UNCHANGED <<encQueue, captured>>
       ELSE IF encoder # "configured"
            THEN Throw(ErrEncoderState) /\ UNCHANGED <<encQueue, captured>>
            ELSE /\ encQueue' = Append(encQueue, [frame |-> frame.id, key |-> KeyFrame(i)])
                 /\ captured' = captured
                 /\ Goto(IF i < FRAME_COUNT - 1 THEN "interval" ELSE "flushCall")
    /\ frame' = NoCapture
    /\ timeline' = Append(timeline, Event("encodeFrame", i, frame.id, slept))
    /\ UNCHANGED <<i, mediaStream, validationResults, faceDetectionService>>
    /\ UNCHANGED <<encoder, encodedChunks>>
    /\ UNCHANGED <<rejected, responses, cleanupRuns, slept, call, runs, onValidationCalls>>
    /\ UNCHANGED <<trackVars, fcsVars, loopVars, decVars, flashVars>>
    /\ UNCHANGED progress

\* The capture loop after `await captureFrame()`: clone the frame for
\* validation on every 5th step when a classifier is configured, then
\* encoderService.encodeFrame(frame, i === 0), which throws before touching
\* the frame unless the encoder exists and is configured, and otherwise
\* submits the frame and closes it.  Then the 450 ms sleep, or the loop's end.
EncodeFrame ==
    /\ pc = "encode"
    /\ encoder = "configured" => Len(encQueue) < MaxEncodeQueue
    /\ LET sample == faceDetectionService # NULL
                     /\ i % VALIDATION_FRAME_SAMPLING_RATE = 0
       IN /\ capturedFramesForValidation' =
                IF sample THEN Append(capturedFramesForValidation, Len(sampled) + 1)
                          ELSE capturedFramesForValidation
          /\ sampled' = IF sample THEN Append(sampled, [of |-> frame.id, closed |-> 0])
                                  ELSE sampled
    /\ IF encoder = NULL
       THEN Throw(ErrEncoderNotInit) /\ UNCHANGED <<encQueue, captured>>
       ELSE IF encoder # "configured"
            THEN Throw(ErrEncoderState) /\ UNCHANGED <<encQueue, captured>>
            ELSE /\ encQueue' = Append(encQueue, [frame |-> frame.id, key |-> KeyFrame(i)])
                 /\ captured' = CloseIn(captured, frame.id)
                 /\ Goto(IF i < FRAME_COUNT - 1 THEN "interval" ELSE "flushCall")
    /\ frame' = NoCapture
    /\ timeline' = Append(timeline, Event("encodeFrame", i, frame.id, slept))
    /\ UNCHANGED <<i, mediaStream, validationResults, faceDetectionService>>
    /\ UNCHANGED <<encoder, encodedChunks>>
    /\ UNCHANGED <<rejected, responses, cleanupRuns, slept, call, runs, onValidationCalls>>
    /\ UNCHANGED <<trackVars, fcsVars, loopVars, decVars, flashVars>>
    /\ UNCHANGED progress

\* The mutant of NextStep: every other step of the pattern is skipped.
NextStepSkips ==
    /\ pc = "interval"
    /\ i' = IF i + 2 < FRAME_COUNT THEN i + 2 ELSE i + 1
    /\ color' = FlashSetColor(FlashColorOf(i'))
    /\ slept' = slept + (FRAME_INTERVAL_MS - FLASH_DISPLAY_DELAY_MS)
    /\ timeline' = Append(timeline,
                          Event("setColor", i', FLASH_PATTERN[i' + 1],
                                slept + (FRAME_INTERVAL_MS - FLASH_DISPLAY_DELAY_MS)))
    /\ Goto("capture")
    /\ UNCHANGED <<mediaStream, validationResults, capturedFramesForValidation,
                   faceDetectionService, frame>>
    /\ UNCHANGED <<overlay, display>>
    /\ UNCHANGED <<trackVars, fcsVars, loopVars, encVars, decVars>>
    /\ UNCHANGED <<rejected, responses, cleanupRuns, captured, sampled, call,
                   runs, onValidationCalls>>
    /\ Report(<<StepProgress(i)>>)

\* The 450 ms sleep ends: the next step sets its colour and sleeps 50 ms.
NextStep ==
    /\ pc = "interval"
    /\ i' = i + 1
    /\ color' = FlashSetColor(FlashColorOf(i + 1))
    /\ slept' = slept + (FRAME_INTERVAL_MS - FLASH_DISPLAY_DELAY_MS)
    /\ timeline' = Append(timeline,
                          Event("setColor", i + 1, FLASH_PATTERN[i + 2],
                                slept + (FRAME_INTERVAL_MS - FLASH_DISPLAY_DELAY_MS)))
    /\ Goto("capture")
    /\ UNCHANGED <<mediaStream, validationResults, capturedFramesForValidation,
                   faceDetectionService, frame>>
    /\ UNCHANGED <<overlay, display>>
    /\ UNCHANGED <<trackVars, fcsVars, loopVars, encVars, decVars>>
    /\ UNCHANGED <<rejected, responses, cleanupRuns, captured, sampled, call,
                   runs, onValidationCalls>>
    /\ Report(<<StepProgress(i)>>)

\* FlushCall after a trailing interval wait: the loop sleeps after its last
\* step as it does after the others.
FlushCallAfterWait ==
    /\ pc = "flushCall"
    /\ display' = FlashHide
    /\ slept' = slept + (FRAME_INTERVAL_MS - FLASH_DISPLAY_DELAY_MS)
    /\ IF encoder = NULL
       THEN Throw(ErrEncoderNotInit)
       ELSE IF encoder # "configured"
            THEN Throw(ErrFlushState)
            ELSE Goto("flush")
    /\ UNCHANGED <<i, mediaStream, validationResults, capturedFramesForValidation,
                   faceDetectionService, frame>>
    /\ UNCHANGED <<overlay, color>>
    /\ UNCHANGED <<trackVars, fcsVars, loopVars, encVars, decVars>>
    /\ UNCHANGED <<rejected, responses, cleanupRuns, captured, sampled, call, runs, onValidationCalls, timeline>>
    /\ Report(<<StepProgress(i), 70>>)
\* The mutant of FlushCall: flush() is called and not awaited.
FlushCallNotAwaited ==
    /\ pc = "flushCall"
    /\ display' = FlashHide
    /\ IF encoder = NULL
       THEN Throw(ErrEncoderNotInit)
       ELSE IF encoder # "configured"
            THEN Throw(ErrFlushState)
            ELSE Goto("decode")
    /\ UNCHANGED <<i, mediaStream, validationResults, capturedFramesForValidation,
                   faceDetectionService, frame>>
    /\ UNCHANGED <<overlay, color>>
    /\ UNCHANGED <<trackVars, fcsVars, loopVars, encVars, decVars>>
    /\ UNCHANGED <<rejected, responses, cleanupRuns, captured, sampled, slept, call, runs, onValidationCalls, timeline>>
    /\ Report(<<StepProgress(i), 70>>)

\* After the loop: flashController.hide(), then encoderService.flush() up to
\* `await this.encoder.flush()`.
FlushCall ==
    /\ pc = "flushCall"
    /\ display' = FlashHide
    /\ IF encoder = NULL
       THEN Throw(ErrEncoderNotInit)
       ELSE IF encoder # "configured"
            THEN Throw(ErrFlushState)
            ELSE Goto("flush")
    /\ UNCHANGED <<i, mediaStream, validationResults, capturedFramesForValidation,
                   faceDetectionService, frame>>
    /\ UNCHANGED <<overlay, color>>
    /\ UNCHANGED <<trackVars, fcsVars, loopVars, encVars, decVars>>
    /\ UNCHANGED <<rejected, responses, cleanupRuns, captured, sampled, slept, call, runs, onValidationCalls, timeline>>
    /\ Report(<<StepProgress(i), 70>>)

\* The mutant of FlushResolve: flush() resolves with frames still in progress.
FlushResolveEarly ==
    /\ pc = "flush" /\ encoder = "configured"
    /\ Goto("decode")
    /\ UNCHANGED <<i, mediaStream, validationResults, capturedFramesForValidation,
                   faceDetectionService, frame>>
    /\ UNCHANGED <<trackVars, fcsVars, loopVars, encVars, decVars, flashVars>>
    /\ UNCHANGED <<rejected, responses, cleanupRuns, captured, sampled, slept, call, ghostVars>>

\* encoder.flush() resolves once every submitted frame has been output.
FlushResolve ==
    /\ pc = "flush" /\ encoder = "configured" /\ encQueue = <<>>
    /\ Goto("decode")
    /\ UNCHANGED <<i, mediaStream, validationResults, capturedFramesForValidation,
                   faceDetectionService, frame>>
    /\ UNCHANGED <<trackVars, fcsVars, loopVars, encVars, decVars, flashVars>>
    /\ UNCHANGED <<rejected, responses, cleanupRuns, captured, sampled, slept, call, ghostVars>>

\* encoder.flush() rejects when the encoder was closed by an error.
FlushReject ==
    /\ pc = "flush" /\ encoder = "closed"
    /\ Throw(ErrFlushRejected)
    /\ UNCHANGED <<i, mediaStream, validationResults, capturedFramesForValidation,
                   faceDetectionService, frame>>
    /\ UNCHANGED <<trackVars, fcsVars, loopVars, encVars, decVars, flashVars>>
    /\ UNCHANGED <<rejected, responses, cleanupRuns, captured, sampled, slept, call, ghostVars>>

\* ---------------------------------------------------- VideoEncoderService
\* The kind of the chunk the encoder emits for a submitted frame: key when
\* a keyframe was requested and for the first frame after configure().
ChunkType(sub) == IF sub.key \/ encodedChunks = <<>> THEN "key" ELSE "delta"

\* The mutant of EncoderOutput: the chunk is put in front of the list.
EncoderOutputPrepends ==
    /\ encoder = "configured" /\ encQueue # <<>>
    /\ encodedChunks' = <<[frame |-> Head(encQueue).frame,
                           type |-> ChunkType(Head(encQueue))]>> \o encodedChunks
    /\ encQueue' = Tail(encQueue)
    /\ UNCHANGED encoder
    /\ UNCHANGED <<orchVars, trackVars, fcsVars, loopVars, decVars, flashVars, obsVars>>

\* The encoder's output callback, handleEncodedChunk(): the oldest submitted
\* frame's chunk is copied and pushed on encodedChunks.
EncoderOutput ==
    /\ encoder = "configured" /\ encQueue # <<>>
    /\ encodedChunks' = Append(encodedChunks,
                               [frame |-> Head(encQueue).frame,
                                type |-> ChunkType(Head(encQueue))])
    /\ encQueue' = Tail(encQueue)
    /\ UNCHANGED encoder
    /\ UNCHANGED <<orchVars, trackVars, fcsVars, loopVars, decVars, flashVars, obsVars>>

\* The encoder's error callback: the runtime closes the encoder while frames
\* are being encoded; the error is only logged.
EncoderError ==
    /\ encoder = "configured" /\ encQueue # <<>>
    /\ encoder' = "closed"
    /\ encQueue' = <<>>
    /\ UNCHANGED encodedChunks
    /\ UNCHANGED <<orchVars, trackVars, fcsVars, loopVars, decVars, flashVars, obsVars>>

\* ---------------------------------------------------- VideoDecoderService
\* The mutant of InitializeDecoder: Step 4 without the test of chunks.length.
InitializeDecoderNoChunkCheck ==
    /\ pc = "decode"
    /\ IF mediaStream = NULL
       THEN Throw(ErrNoStream) /\ UNCHANGED <<decoder, decodedFrames>>
       ELSE \E supported \in BOOLEAN:
               IF ~supported
               THEN Throw(ErrDecoderUnsupported) /\ UNCHANGED <<decoder, decodedFrames>>
               ELSE /\ decodedFrames' = <<>>
                    /\ decoder' = "configured"
                    /\ Goto("decodeCall")
    /\ UNCHANGED <<i, mediaStream, validationResults, capturedFramesForValidation,
                   faceDetectionService, frame>>
    /\ UNCHANGED <<decQueue, decoded, drawn>>
    /\ UNCHANGED <<trackVars, fcsVars, loopVars, encVars, flashVars>>
    /\ UNCHANGED <<rejected, responses, cleanupRuns, captured, sampled, slept, call, runs, onValidationCalls, timeline>>
    /\ Report(<<70, 70>>)

\* Step 4, decodeAndRender(canvas) of the orchestrator up to the end of
\* decoderService.initialize(): no chunks is an error; the decoder is created
\* and configured only when the config is supported.
InitializeDecoder ==
    /\ pc = "decode"
    /\ IF encodedChunks = <<>>
       THEN Throw(ErrNoChunks) /\ UNCHANGED <<decoder, decodedFrames>>
       ELSE IF mediaStream = NULL
            THEN Throw(ErrNoStream) /\ UNCHANGED <<decoder, decodedFrames>>
            ELSE \E supported \in BOOLEAN:
                    IF ~supported
                    THEN Throw(ErrDecoderUnsupported) /\ UNCHANGED <<decoder, decodedFrames>>
                    ELSE /\ decodedFrames' = <<>>
                         /\ decoder' = "configured"
                         /\ Goto("decodeCall")
    /\ UNCHANGED <<i, mediaStream, validationResults, capturedFramesForValidation,
                   faceDetectionService, frame>>
    /\ UNCHANGED <<decQueue, decoded, drawn>>
    /\ UNCHANGED <<trackVars, fcsVars, loopVars, encVars, flashVars>>
    /\ UNCHANGED <<rejected, responses, cleanupRuns, captured, sampled, slept, call, runs, onValidationCalls, timeline>>
    /\ Report(<<70, 70>>)

\* decoderService.decodeAndRender(chunks, canvas) up to `await flush()`:
\* every chunk is submitted, in order.
DecodeChunks ==
    /\ pc = "decodeCall"
    /\ IF decoder = NULL
       THEN Throw(ErrDecoderNotInit) /\ UNCHANGED decQueue
       ELSE /\ decQueue' = decQueue \o [k \in 1..Len(encodedChunks) |-> k]
            /\ Goto("decodeFlush")
    /\ UNCHANGED <<i, mediaStream, validationResults, capturedFramesForValidation,
                   faceDetectionService, frame>>
    /\ UNCHANGED <<decoder, decodedFrames, decoded, drawn>>
    /\ UNCHANGED <<trackVars, fcsVars, loopVars, encVars, flashVars>>
    /\ UNCHANGED <<rejected, responses, cleanupRuns, captured, sampled, slept, call, ghostVars>>

\* The decoder's output callback: the frame of the oldest submitted chunk is
\* pushed on decodedFrames.
DecoderOutput ==
    /\ decoder = "configured" /\ decQueue # <<>>
    /\ decoded' = Append(decoded, [chunk |-> Head(decQueue), closed |-> 0])
    /\ decodedFrames' = Append(decodedFrames, Len(decoded) + 1)
    /\ decQueue' = Tail(decQueue)
    /\ UNCHANGED <<decoder, drawn>>
    /\ UNCHANGED <<orchVars, trackVars, fcsVars, loopVars, encVars, flashVars, obsVars>>

\* The decoder's error callback: the runtime closes the decoder while chunks
\* are being decoded; the error is only logged.
DecoderError ==
    /\ decoder = "configured" /\ decQueue # <<>>
    /\ decoder' = "closed"
    /\ decQueue' = <<>>
    /\ UNCHANGED <<decodedFrames, decoded, drawn>>
    /\ UNCHANGED <<orchVars, trackVars, fcsVars, loopVars, encVars, flashVars, obsVars>>

\* The mutant of DecodeFlushReject: the failure is recorded and execute()
\* goes on to the next step.
DecodeFlushRejectSwallowed ==
    /\ pc = "decodeFlush" /\ decoder = "closed"
    /\ pc' = (IF faceDetectionService # NULL THEN "validate" ELSE "cleanup")
    /\ error' = ErrDecodeRejected
    /\ firstError' = ErrDecodeRejected
    /\ UNCHANGED <<i, mediaStream, validationResults, capturedFramesForValidation,
                   faceDetectionService, frame>>
    /\ UNCHANGED <<trackVars, fcsVars, loopVars, encVars, decVars, flashVars>>
    /\ UNCHANGED <<rejected, responses, cleanupRuns, captured, sampled, slept, call, ghostVars>>

\* The mutant of AfterDecode: Step 5 is entered with or without a classifier.
AfterDecodeAlwaysValidates == "validate"

\* decoder.flush() rejects when the decoder was closed by an error.
DecodeFlushReject ==
    /\ pc = "decodeFlush" /\ decoder = "closed"
    /\ Throw(ErrDecodeRejected)
    /\ UNCHANGED <<i, mediaStream, validationResults, capturedFramesForValidation,
                   faceDetectionService, frame>>
    /\ UNCHANGED <<trackVars, fcsVars, loopVars, encVars, decVars, flashVars>>
    /\ UNCHANGED <<rejected, responses, cleanupRuns, captured, sampled, slept, call, ghostVars>>

\* Where execute() goes after Step 4: Step 5 only with a classifier.
AfterDecode == IF faceDetectionService # NULL THEN "validate" ELSE "cleanup"

\* decoder.flush() resolves; renderFrames() runs up to its first sleep: no 2D
\* context is an error, no frames is a warning, else frame 0 is drawn and,
\* when it is the only frame, closed.
RenderFrames ==
    /\ pc = "decodeFlush" /\ decoder = "configured" /\ decQueue = <<>>
    /\ \E ctx \in BOOLEAN:
        IF ~ctx
        THEN Throw(ErrNoContext) /\ UNCHANGED <<i, decodedFrames, decoded, drawn, slept>>
        ELSE IF decodedFrames = <<>>
             THEN Goto(AfterDecode) /\ UNCHANGED <<i, decodedFrames, decoded, drawn, slept>>
             ELSE /\ slept' = 0
                  /\ drawn' = Append(drawn, [frame |-> decodedFrames[1], at |-> 0])
                  /\ i' = 0
                  /\ IF 0 < Len(decodedFrames) - 1
                     THEN Goto("render") /\ UNCHANGED <<decodedFrames, decoded>>
                     ELSE /\ decoded' = CloseIn(decoded, decodedFrames[1])
                          /\ decodedFrames' = <<>>
                          /\ Goto(AfterDecode)
    /\ UNCHANGED <<mediaStream, validationResults, capturedFramesForValidation,
                   faceDetectionService, frame>>
    /\ UNCHANGED <<decoder, decQueue>>
    /\ UNCHANGED <<trackVars, fcsVars, loopVars, encVars, flashVars>>
    /\ UNCHANGED <<rejected, responses, cleanupRuns, captured, sampled, call, ghostVars>>

\* The mutant of RenderNext: the next frame is drawn without the sleep.
RenderNextNoSleep ==
    /\ pc = "render"
    /\ i' = i + 1
    /\ slept' = slept
    /\ drawn' = Append(drawn, [frame |-> decodedFrames[i + 2],
                               at |-> slept])
    /\ IF i + 1 < Len(decodedFrames) - 1
       THEN /\ decoded' = CloseIn(decoded, decodedFrames[i + 1])
            /\ Goto("render")
            /\ UNCHANGED decodedFrames
       ELSE /\ decoded' = CloseIn(CloseIn(decoded, decodedFrames[i + 1]),
                                  decodedFrames[i + 2])
            /\ decodedFrames' = <<>>
            /\ Goto(AfterDecode)
    /\ UNCHANGED <<mediaStream, validationResults, capturedFramesForValidation,
                   faceDetectionService, frame>>
    /\ UNCHANGED <<decoder, decQueue>>
    /\ UNCHANGED <<trackVars, fcsVars, loopVars, encVars, flashVars>>
    /\ UNCHANGED <<rejected, responses, cleanupRuns, captured, sampled, call, ghostVars>>

\* The 500 ms sleep after frame i ends: frame i is closed, frame i + 1 drawn
\* and, when it is the last one, closed; then decodedFrames is emptied.
RenderNext ==
    /\ pc = "render"
    /\ i' = i + 1
    /\ slept' = slept + FRAME_PLAYBACK_INTERVAL_MS
    /\ drawn' = Append(drawn, [frame |-> decodedFrames[i + 2],
                               at |-> slept + FRAME_PLAYBACK_INTERVAL_MS])
    /\ IF i + 1 < Len(decodedFrames) - 1
       THEN /\ decoded' = CloseIn(decoded, decodedFrames[i + 1])
            /\ Goto("render")
            /\ UNCHANGED decodedFrames
       ELSE /\ decoded' = CloseIn(CloseIn(decoded, decodedFrames[i + 1]),
                                  decodedFrames[i + 2])
            /\ decodedFrames' = <<>>
            /\ Goto(AfterDecode)
    /\ UNCHANGED <<mediaStream, validationResults, capturedFramesForValidation,
                   faceDetectionService, frame>>
    /\ UNCHANGED <<decoder, decQueue>>
    /\ UNCHANGED <<trackVars, fcsVars, loopVars, encVars, flashVars>>
    /\ UNCHANGED <<rejected, responses, cleanupRuns, captured, sampled, call, ghostVars>>
\* ------------------------------------------- OpenAIFaceDetectionService
\* What one call of the vision API comes to inside analyzeFrame()'s try
\* block: a well-formed JSON answer, or an error, of which the catch clause
\* reads the name and whether the message mentions the API key / rate limit.
\* Confidence is in tenths (15 is a raw 1.5).
Json(face, facing, conf) ==
    [kind |-> "json", hasFace |-> face, isFacingCamera |-> facing, confidence |-> conf]
Failure(name, key, rate) ==
    [kind |-> "error", name |-> name, key |-> key, rate |-> rate]
ClassifierResponses ==
    { Json(TRUE, TRUE, 15), Json(TRUE, FALSE, -5),
      Failure("AbortError", FALSE, FALSE),   \* the 30 s timeout aborted fetch
      Failure("Error", TRUE, FALSE),         \* "... API key ..." / "Unauthorized"
      Failure("Error", FALSE, TRUE),         \* "... rate limit ..." / "429"
      Failure("Error", FALSE, FALSE) }       \* malformed answer, other API error

Min(a, b) == IF a < b THEN a ELSE b
Max(a, b) == IF a > b THEN a ELSE b

\* The mutant of DetectionResult: the confidence is copied as it is.
DetectionResultNoClamp(resp) ==
    [isValid |-> resp.hasFace /\ resp.isFacingCamera,
     hasFace |-> resp.hasFace,
     isFacingCamera |-> resp.isFacingCamera,
     confidence |-> resp.confidence,
     reason |-> "answer"]

\* The result built from a well-formed answer.
DetectionResult(resp) ==
    [isValid |-> resp.hasFace /\ resp.isFacingCamera,
     hasFace |-> resp.hasFace,
     isFacingCamera |-> resp.isFacingCamera,
     confidence |-> Max(0, Min(10, resp.confidence)),
     reason |-> "answer"]

\* The result the catch clause returns for the errors it does not rethrow.
FallbackResult ==
    [isValid |-> FALSE, hasFace |-> FALSE, isFacingCamera |-> FALSE,
     confidence |-> 0, reason |-> "Analysis failed"]

\* The mutant of AnalyzeFrame: the catch clause rethrows every error.
AnalyzeFrameRethrowsAll(resp) ==
    IF resp.kind = "json"
    THEN [threw |-> FALSE, result |-> DetectionResult(resp)]
    ELSE IF resp.name = "AbortError"
         THEN [threw |-> TRUE, error |-> ErrApiTimeout]
         ELSE IF resp.key
              THEN [threw |-> TRUE, error |-> ErrApiKey]
              ELSE [threw |-> TRUE, error |-> ErrRateLimit]

\* analyzeFrame(): [threw, error] or [threw, result].
AnalyzeFrame(resp) ==
    IF resp.kind = "json"
    THEN [threw |-> FALSE, result |-> DetectionResult(resp)]
    ELSE IF resp.name = "AbortError"
         THEN [threw |-> TRUE, error |-> ErrApiTimeout]
         ELSE IF resp.key
              THEN [threw |-> TRUE, error |-> ErrApiKey]
              ELSE IF resp.rate
                   THEN [threw |-> TRUE, error |-> ErrRateLimit]
                   ELSE [threw |-> FALSE, result |-> FallbackResult]

\* execute() after validateCapturedFrames() returned: the onValidation
\* callback is called with this.validationResults when that list is not empty.
OnValidation(results) ==
    IF results # <<>> THEN Append(onValidationCalls, results) ELSE onValidationCalls

\* Step 5, validateCapturedFrames() up to the first analyzeFrame(): nothing
\* to do without a classifier or without sampled frames.
StartValidation ==
    /\ pc = "validate"
    /\ IF faceDetectionService = NULL \/ capturedFramesForValidation = <<>>
       THEN /\ Goto("cleanup")
            /\ onValidationCalls' = OnValidation(validationResults)
            /\ UNCHANGED <<i, validationResults>>
       ELSE /\ validationResults' = <<>>
            /\ i' = 0
            /\ Goto("analyze")
            /\ UNCHANGED onValidationCalls
    /\ UNCHANGED <<mediaStream, capturedFramesForValidation, faceDetectionService, frame>>
    /\ UNCHANGED <<trackVars, fcsVars, loopVars, encVars, decVars, flashVars>>
    /\ UNCHANGED <<rejected, responses, cleanupRuns, captured, sampled, slept, call,
                   runs, timeline>>
    /\ Report(<<80, 80>>)

\* One call analyzeFrame(f): what it met, the frame it was given and what
\* it returned or threw.
Analyzed(resp, f) == resp @@ [frame |-> f, out |-> AnalyzeFrame(resp)]

\* analyzeFrame(capturedFramesForValidation[i]) settles: a result is pushed
\* and the frame closed; a rethrown error leaves validateCapturedFrames().
\* After the last frame the sample list is emptied.
ValidateFrame ==
    /\ pc = "analyze"
    /\ \E resp \in ClassifierResponses:
        LET out == AnalyzeFrame(resp) IN
        IF out.threw
        THEN /\ Throw(out.error)
             /\ responses' = Append(responses, Analyzed(resp, capturedFramesForValidation[i + 1]))
             /\ UNCHANGED <<i, validationResults, capturedFramesForValidation, sampled,
                            onValidationCalls>>
        ELSE /\ validationResults' = Append(validationResults, out.result)
             /\ responses' = Append(responses, Analyzed(resp, capturedFramesForValidation[i + 1]))
             /\ sampled' = CloseIn(sampled, capturedFramesForValidation[i + 1])
             /\ i' = i + 1
             /\ IF i + 1 < Len(capturedFramesForValidation)
                THEN /\ Goto("analyze")
                     /\ UNCHANGED <<capturedFramesForValidation, onValidationCalls>>
                ELSE /\ capturedFramesForValidation' = <<>>
                     /\ onValidationCalls' = OnValidation(validationResults')
                     /\ Goto("cleanup")
    /\ UNCHANGED <<mediaStream, faceDetectionService, frame>>
    /\ UNCHANGED <<trackVars, fcsVars, loopVars, encVars, decVars, flashVars>>
    /\ UNCHANGED <<rejected, cleanupRuns, captured, slept, call, runs, timeline>>
    /\ UNCHANGED progress

\* ------------------------------------------------------------- cleanup()
\* close() on every frame of log `log` whose id is in the list `ids`.
CloseAllIn(log, ids) ==
    [k \in DOMAIN log |->
        IF \E j \in DOMAIN ids: ids[j] = k
        THEN [log[k] EXCEPT !.closed = @ + 1] ELSE log[k]]

\* The statements of cleanup(), in order:
\*   1 frameCaptureService.dispose()   2 encoderService.dispose()
\*   3 decoderService.dispose()        4 flashController.dispose()
\*   5 close the sampled frames        6 stop the stream's tracks
CLEANUP_STEPS == 6

\* FrameCaptureService.dispose()
FrameCaptureDispose(run) ==
    IF run
    THEN /\ isReading' = FALSE
         /\ cancelled' = (cancelled \/ reader # NULL)
         /\ reader' = NULL
         /\ srcClosed' = CloseSrc(srcClosed, currentFrame)
         /\ currentFrame' = NoFrame
         /\ videoTrack' = NULL
    ELSE UNCHANGED <<isReading, cancelled, reader, srcClosed, currentFrame, videoTrack>>

\* The mutant of EncoderDispose: the encoder is closed and kept.
EncoderDisposeKeepsEncoder(run) ==
    IF run
    THEN /\ encoder' = IF encoder = NULL THEN NULL ELSE "closed"
         /\ encodedChunks' = <<>> /\ encQueue' = <<>>
    ELSE UNCHANGED <<encoder, encodedChunks, encQueue>>

\* VideoEncoderService.dispose()
EncoderDispose(run) ==
    IF run
    THEN encoder' = NULL /\ encodedChunks' = <<>> /\ encQueue' = <<>>
    ELSE UNCHANGED <<encoder, encodedChunks, encQueue>>

\* VideoDecoderService.dispose()
DecoderDispose(run) ==
    IF run
    THEN /\ decoded' = CloseAllIn(decoded, decodedFrames)
         /\ decodedFrames' = <<>>
         /\ decoder' = NULL
         /\ decQueue' = <<>>
    ELSE UNCHANGED <<decoded, decodedFrames, decoder, decQueue>>

\* ScreenFlashController.dispose()
FlashDispose(run) == IF run THEN overlay' = NULL ELSE UNCHANGED overlay

\* The first n statements of cleanup().
CleanupSteps(n) ==
    /\ FrameCaptureDispose(n >= 1)
    /\ EncoderDispose(n >= 2)
    /\ DecoderDispose(n >= 3)
    /\ FlashDispose(n >= 4)
    /\ IF n >= 5
       THEN /\ sampled' = CloseAllIn(sampled, capturedFramesForValidation)
            /\ capturedFramesForValidation' = <<>>
       ELSE UNCHANGED <<sampled, capturedFramesForValidation>>
    /\ mediaStream' = IF n >= 6 THEN NULL ELSE mediaStream
    /\ trackStops' = trackStops
                     + (IF n >= 1 /\ videoTrack # NULL THEN 1 ELSE 0)
                     + (IF n >= 6 /\ mediaStream # NULL THEN 1 ELSE 0)
    /\ trackState' = IF (n >= 1 /\ videoTrack # NULL) \/ (n >= 6 /\ mediaStream # NULL)
                     THEN "ended" ELSE trackState
    /\ cleanupRuns' = IF n >= CLEANUP_STEPS THEN cleanupRuns + 1 ELSE cleanupRuns
    /\ UNCHANGED <<i, validationResults, faceDetectionService, frame>>
    /\ UNCHANGED <<lockId, pendingGates, waited>>
    /\ UNCHANGED <<rpc, rvalue, rawait, produced>>
    /\ UNCHANGED <<drawn, display, color>>
    /\ UNCHANGED <<responses, captured, slept, call, runs, onValidationCalls, timeline>>

\* Step 6 on the success path: `await this.cleanup()`.
Cleanup ==
    /\ pc = "cleanup"
    /\ CleanupSteps(CLEANUP_STEPS)
    /\ Goto("complete")
    /\ UNCHANGED rejected
    /\ Report(IF faceDetectionService # NULL THEN <<90, 90>> ELSE <<80, 90, 90>>)

\* execute() returns: its promise resolves.
Complete ==
    /\ pc = "complete"
    /\ Goto("completed")
    /\ UNCHANGED <<i, mediaStream, validationResults, capturedFramesForValidation,
                   faceDetectionService, frame>>
    /\ UNCHANGED <<trackVars, fcsVars, loopVars, encVars, decVars, flashVars>>
    /\ UNCHANGED <<rejected, responses, cleanupRuns, captured, sampled, slept, call, runs, onValidationCalls, timeline>>
    /\ Report(<<100>>)

\* The mutant of CatchCleanup: the catch clause only rethrows.
CatchWithoutCleanup ==
    /\ pc = "catch"
    /\ Goto("rethrow")
    /\ UNCHANGED <<i, mediaStream, validationResults, capturedFramesForValidation,
                   faceDetectionService, frame>>
    /\ UNCHANGED <<trackVars, fcsVars, loopVars, encVars, decVars, flashVars>>
    /\ UNCHANGED <<rejected, responses, cleanupRuns, captured, sampled, slept, call, ghostVars>>

\* catch (error) { logger.error(...); await this.cleanup(); ...
CatchCleanup ==
    /\ pc = "catch"
    /\ CleanupSteps(CLEANUP_STEPS)
    /\ Goto("rethrow")
    /\ UNCHANGED rejected
    /\ UNCHANGED progress

\* The mutant of Rethrow: the catch clause swallows the error.
RethrowSwallowed ==
    /\ pc = "rethrow"
    /\ Goto("completed")
    /\ UNCHANGED <<i, mediaStream, validationResults, capturedFramesForValidation,
                   faceDetectionService, frame>>
    /\ UNCHANGED <<trackVars, fcsVars, loopVars, encVars, decVars, flashVars>>
    /\ UNCHANGED <<rejected, responses, cleanupRuns, captured, sampled, slept, call, ghostVars>>

\* ... throw error; }: execute()'s promise rejects with the caught error.
Rethrow ==
    /\ pc = "rethrow"
    /\ Goto("failed")
    /\ rejected' = error
    /\ UNCHANGED <<i, mediaStream, validationResults, capturedFramesForValidation,
                   faceDetectionService, frame>>
    /\ UNCHANGED <<trackVars, fcsVars, loopVars, encVars, decVars, flashVars>>
    /\ UNCHANGED <<responses, cleanupRuns, captured, sampled, slept, call, ghostVars>>

\* ------------------------------------------------------------ the program
Next ==
    \/ Execute \/ AcquireSource \/ WaitForFirstFrame \/ InitializeEncoder
    \/ StartCapture \/ CaptureFrame \/ EncodeFrame \/ NextStep
    \/ FlushCall \/ FlushResolve \/ FlushReject
    \/ EncoderOutput \/ EncoderError
    \/ InitializeDecoder \/ DecodeChunks \/ DecoderOutput \/ DecoderError
    \/ DecodeFlushReject \/ RenderFrames \/ RenderNext
    \/ StartValidation \/ ValidateFrame
    \/ Cleanup \/ Complete \/ CatchCleanup \/ Rethrow
    \/ ReaderRead \/ ReaderDone \/ ReaderStore

Spec == Init /\ [][Next]_vars

Settled == pc \in {"completed", "failed"}
\* ------------------------------------------------------- a run that goes on
\* The steps of execute() itself: an awaited call of a collaborator settles
\* (resolves or rejects), or an awaited timer fires, and execute() runs on to
\* its next await or to its end.
ExecuteStep ==
    \/ AcquireSource \/ WaitForFirstFrame \/ InitializeEncoder
    \/ StartCapture \/ CaptureFrame \/ EncodeFrame \/ NextStep
    \/ FlushCall \/ FlushResolve \/ FlushReject
    \/ InitializeDecoder \/ DecodeChunks \/ DecodeFlushReject
    \/ RenderFrames \/ RenderNext
    \/ StartValidation \/ ValidateFrame
    \/ Cleanup \/ Complete \/ CatchCleanup \/ Rethrow

\* Every awaited promise settles and every timer fires: the event loop runs
\* the continuation of a settled await, and a codec that has work queued goes
\* on to deliver its output (or to report an error), which is what its flush()
\* promise waits for.  Nothing is assumed of the camera: the reader may never
\* deliver a frame.
SpecLive ==
    Spec /\ WF_vars(ExecuteStep)
         /\ WF_vars(EncoderOutput \/ EncoderError)
         /\ WF_vars(DecoderOutput \/ DecoderError)
\* ------------------------------------------- cleanup() with a failing step
\* The orchestrator is written against the service interfaces.  With an
\* injected service whose dispose() throws, cleanup() stops at that statement
\* and `await this.cleanup()` in the catch clause throws the dispose error in
\* place of the caught one.  (The dispose() of the repository's own four
\* services does not throw.)
ErrDispose == "dispose() threw"
DISPOSE_CALLS == 4

CatchCleanupThrows ==
    /\ pc = "catch"
    /\ \E k \in 1..DISPOSE_CALLS: CleanupSteps(k - 1)
    /\ Goto("failed")
    /\ rejected' = ErrDispose
    /\ UNCHANGED progress

NextCleanupFault == Next \/ CatchCleanupThrows

SpecCleanupFault == Init /\ [][NextCleanupFault]_vars

\* ------------------------------------------------ a draw that throws
\* ctx.drawImage(frame, ...) in renderFrames() can throw (the canvas or the
\* frame is not usable).  At frame i + 1 of the loop the frames before it
\* have been closed one by one but are still in this.decodedFrames, which
\* is emptied only after the loop; the exception leaves renderFrames() and
\* reaches execute()'s catch clause.
ErrDrawImage == "drawImage threw"

RenderNextThrows ==
    /\ pc = "render"
    /\ slept' = slept + FRAME_PLAYBACK_INTERVAL_MS
    /\ decoded' = CloseIn(decoded, decodedFrames[i + 1])
    /\ Throw(ErrDrawImage)
    /\ UNCHANGED <<i, mediaStream, validationResults, capturedFramesForValidation,
                   faceDetectionService, frame>>
    /\ UNCHANGED <<decoder, decodedFrames, decQueue, drawn>>
    /\ UNCHANGED <<trackVars, fcsVars, loopVars, encVars, flashVars>>
    /\ UNCHANGED <<rejected, responses, cleanupRuns, captured, sampled, call, ghostVars>>

NextDrawFault == Next \/ RenderNextThrows

SpecDrawFault == Init /\ [][NextDrawFault]_vars
\* ------------------------------------------ an encoder that emits no chunk
\* The orchestrator is written against IVideoEncoderService.  With an
\* encoder that takes every frame and outputs nothing, flush() resolves and
\* getEncodedChunks() is empty when Step 4 begins: no run goes past Step 4.
EncoderDiscards ==
    /\ encoder = "configured" /\ encQueue # <<>>
    /\ encQueue' = Tail(encQueue)
    /\ UNCHANGED <<encoder, encodedChunks>>
    /\ UNCHANGED <<orchVars, trackVars, fcsVars, loopVars, decVars, flashVars, obsVars>>

NextSilentEncoder ==
    \/ Execute \/ AcquireSource \/ WaitForFirstFrame \/ InitializeEncoder
    \/ StartCapture \/ CaptureFrame \/ EncodeFrame \/ NextStep
    \/ FlushCall \/ FlushResolve \/ FlushReject
    \/ EncoderDiscards \/ EncoderError
    \/ InitializeDecoder
    \/ CatchCleanup \/ Rethrow
    \/ ReaderRead \/ ReaderDone \/ ReaderStore

SpecSilentEncoder == Init /\ [][NextSilentEncoder]_vars
\* ------------------------------------------- execute() called a second time
\* execute() is a public method: a caller can call it again on the same
\* orchestrator once a run has settled and the read loop of that run has
\* ended.  The orchestrator and its services keep whatever state the run left
\* in their fields; what is recorded per run (the errors, the calls and the
\* frames of the run) starts afresh.
ExecuteAgain ==
    /\ pc \in {"completed", "failed"} /\ runs < MaxRuns
    /\ rpc \in {"none", "exit"}
    /\ pc' = "acquire" /\ runs' = runs + 1
    /\ error' = NoError /\ firstError' = NoError /\ rejected' = NoError
    /\ i' = 0 /\ slept' = 0 /\ cleanupRuns' = 0
    /\ responses' = <<>> /\ onValidationCalls' = <<>> /\ timeline' = <<>>
    /\ progress' = <<>>
    /\ captured' = <<>> /\ sampled' = <<>> /\ decoded' = <<>> /\ drawn' = <<>>
    /\ UNCHANGED <<mediaStream, validationResults, capturedFramesForValidation,
                   faceDetectionService, frame>>
    /\ UNCHANGED <<decoder, decodedFrames, decQueue>>
    /\ UNCHANGED <<trackVars, fcsVars, loopVars, encVars, flashVars, call>>

NextRerun == Next \/ ExecuteAgain

SpecRerun == Init /\ [][NextRerun]_vars
\* ------------------------------------------- a progress callback that throws
\* onProgress?.(...) is called inside execute()'s try block and inside the
\* capture loop, unguarded: when the callback throws, the exception leaves
\* the step that called it and reaches the catch clause.  The calls are made
\* before Step 1 ("acquire"), between the steps, after each encodeFrame() of
\* the loop ("interval", "flushCall"), before the flush (after hide()), and
\* after cleanup() ("complete").
ErrOnProgress == "onProgress threw"
PROGRESS_POINTS ==
    {"acquire", "initEncoder", "startCapture", "interval", "flushCall",
     "decode", "validate", "cleanup", "complete"}

OnProgressThrows ==
    /\ pc \in PROGRESS_POINTS
    /\ Throw(ErrOnProgress)
    /\ \E hidden \in BOOLEAN:
          display' = IF pc = "flushCall" /\ hidden THEN FlashHide ELSE display
    /\ UNCHANGED <<i, mediaStream, validationResults, capturedFramesForValidation,
                   faceDetectionService, frame>>
    /\ UNCHANGED <<overlay, color>>
    /\ UNCHANGED <<trackVars, fcsVars, loopVars, encVars, decVars>>
    /\ UNCHANGED <<rejected, responses, cleanupRuns, captured, sampled, slept, call, ghostVars>>

NextProgressThrows == Next \/ OnProgressThrows

SpecProgressThrows == Init /\ [][NextProgressThrows]_vars
\* ------------------------------------------------- callers of the services
\* The services are constructed by the application and handed to the
\* orchestrator through their interfaces; any holder of a service can call
\* it.  A caller makes one call at a time and awaits it; `call` is its last
\* call: the method, whether it is pending, returned or threw, the error, and
\* the number of calls made so far, and the chunk list it passed (if any).
ClientReady == pc = "idle" /\ call.st # "pending" /\ call.n < MaxClientCalls
Pending(op) ==
    [op |-> op, st |-> "pending", err |-> NoError, n |-> call.n + 1, chunks |-> <<>>]
Returned(op) ==
    [op |-> op, st |-> "returned", err |-> NoError, n |-> call.n + 1, chunks |-> <<>>]
Threw(op, e) ==
    [op |-> op, st |-> "threw", err |-> e, n |-> call.n + 1, chunks |-> <<>>]
\* The pending call settles.
Settle(st, e) == [call EXCEPT !.st = st, !.err = e]
AwaitedBy(op) == call.op = op /\ call.st = "pending"

\* frameCaptureService.initialize(stream) up to the first sleep of
\* waitForFirstFrame(), on a service whose read loop (if any) has ended.
ClientInitialize ==
    /\ ClientReady /\ rpc \in {"none", "exit"}
    /\ \E tracks \in BOOLEAN:
        IF ~tracks
        THEN /\ call' = Threw("initialize", ErrNoVideoTracks)
             /\ UNCHANGED <<trackState, videoTrack, reader, isReading, rpc, cancelled>>
        ELSE /\ trackState' = "live"
             /\ videoTrack' = "track"
             /\ reader' = "reader"
             /\ isReading' = TRUE
             /\ rpc' = "read"
             /\ cancelled' = FALSE
             /\ call' = IF currentFrame = NoFrame THEN Pending("initialize")
                                                 ELSE Returned("initialize")
    /\ UNCHANGED <<orchVars, trackStops, currentFrame, lockId, pendingGates, waited>>
    /\ UNCHANGED <<rvalue, rawait, produced, srcClosed>>
    /\ UNCHANGED <<firstError, rejected, responses, cleanupRuns, captured, sampled, slept, ghostVars>>
    /\ UNCHANGED <<encVars, decVars, flashVars>>

\* waitForFirstFrame() leaves its loop with a frame in the slot.  (The number
\* of polls it takes is WaitForFirstFrame's subject.)
ClientInitializeResolve ==
    /\ AwaitedBy("initialize") /\ currentFrame # NoFrame
    /\ call' = Settle("returned", NoError)
    /\ UNCHANGED <<orchVars, trackVars, fcsVars, loopVars, encVars, decVars, flashVars>>
    /\ UNCHANGED <<firstError, rejected, responses, cleanupRuns, captured, sampled, slept, ghostVars>>

\* waitForFirstFrame() leaves its loop on the timeout and throws; the read
\* loop keeps running.
ClientInitializeTimeout ==
    /\ AwaitedBy("initialize") /\ currentFrame = NoFrame
    /\ call' = Settle("threw", ErrFirstFrameTimeout)
    /\ UNCHANGED <<orchVars, trackVars, fcsVars, loopVars, encVars, decVars, flashVars>>
    /\ UNCHANGED <<firstError, rejected, responses, cleanupRuns, captured, sampled, slept, ghostVars>>

\* frameCaptureService.captureFrame(); the caller keeps the returned frame in
\* `frame`.
ClientCaptureFrame ==
    /\ ClientReady
    /\ IF currentFrame = NoFrame
       THEN /\ call' = Threw("captureFrame", ErrNoFrame)
            /\ UNCHANGED <<lockId, pendingGates, captured, frame>>
       ELSE /\ CaptureFrameOk
            /\ call' = Returned("captureFrame")
    /\ UNCHANGED <<pc, i, error, mediaStream, validationResults,
                   capturedFramesForValidation, faceDetectionService>>
    /\ UNCHANGED <<videoTrack, reader, currentFrame, isReading, waited>>
    /\ UNCHANGED <<firstError, rejected, responses, cleanupRuns, sampled, slept, ghostVars>>
    /\ UNCHANGED <<trackVars, loopVars, encVars, decVars, flashVars>>

\* frameCaptureService.dispose()
ClientFrameCaptureDispose ==
    /\ ClientReady
    /\ FrameCaptureDispose(TRUE)
    /\ trackStops' = trackStops + (IF videoTrack # NULL THEN 1 ELSE 0)
    /\ trackState' = IF videoTrack # NULL THEN "ended" ELSE trackState
    /\ call' = Returned("dispose")
    /\ UNCHANGED <<orchVars, lockId, pendingGates, waited>>
    /\ UNCHANGED <<rpc, rvalue, rawait, produced>>
    /\ UNCHANGED <<firstError, rejected, responses, cleanupRuns, captured, sampled, slept, ghostVars>>
    /\ UNCHANGED <<encVars, decVars, flashVars>>

NextFrameCaptureClient ==
    \/ ClientInitialize \/ ClientInitializeResolve \/ ClientInitializeTimeout
    \/ ClientCaptureFrame \/ ClientFrameCaptureDispose
    \/ ReaderRead \/ ReaderDone \/ ReaderStore

SpecFrameCaptureClient == Init /\ [][NextFrameCaptureClient]_vars

\* ---- a caller of the encoder and decoder services
\* The chunk lists a caller passes to decodeAndRender(): none or one chunk
\* (with one frame renderFrames() draws without a sleep).
ClientChunkLists == {<<>>, <<1>>}

\* encoderService.initialize(config), on a service that holds no encoder.
ClientEncoderInitialize ==
    /\ ClientReady /\ encoder = NULL
    /\ \E supported \in BOOLEAN:
        IF ~supported
        THEN /\ call' = Threw("encoder.initialize", ErrCodecUnsupported)
             /\ UNCHANGED encVars
        ELSE /\ encodedChunks' = <<>>
             /\ encQueue' = <<>>
             /\ encoder' = "configured"
             /\ call' = Returned("encoder.initialize")
    /\ UNCHANGED <<orchVars, trackVars, fcsVars, loopVars, decVars, flashVars>>
    /\ UNCHANGED <<firstError, rejected, responses, cleanupRuns, captured, sampled, slept, ghostVars>>

\* encoderService.encodeFrame(f, k) with a frame f the caller made: it throws
\* before touching f unless the encoder exists and is configured, and
\* otherwise submits f and closes it.
ClientEncodeFrame ==
    /\ ClientReady
    /\ encoder = "configured" => Len(encQueue) < MaxEncodeQueue
    /\ \E k \in BOOLEAN:
        IF encoder = NULL
        THEN /\ call' = Threw("encodeFrame", ErrEncoderNotInit)
             /\ captured' = Append(captured, [closed |-> 0])
             /\ UNCHANGED encQueue
        ELSE IF encoder # "configured"
             THEN /\ call' = Threw("encodeFrame", ErrEncoderState)
                  /\ captured' = Append(captured, [closed |-> 0])
                  /\ UNCHANGED encQueue
             ELSE /\ encQueue' = Append(encQueue, [frame |-> Len(captured) + 1, key |-> k])
                  /\ captured' = Append(captured, [closed |-> 1])
                  /\ call' = Returned("encodeFrame")
    /\ UNCHANGED <<encoder, encodedChunks>>
    /\ UNCHANGED <<orchVars, trackVars, fcsVars, loopVars, decVars, flashVars>>
    /\ UNCHANGED <<firstError, rejected, responses, cleanupRuns, sampled, slept, ghostVars>>

\* encoderService.flush() up to `await this.encoder.flush()`.
ClientFlush ==
    /\ ClientReady
    /\ call' = IF encoder = NULL THEN Threw("flush", ErrEncoderNotInit)
               ELSE IF encoder # "configured" THEN Threw("flush", ErrFlushState)
               ELSE Pending("flush")
    /\ UNCHANGED <<orchVars, trackVars, fcsVars, loopVars, encVars, decVars, flashVars>>
    /\ UNCHANGED <<firstError, rejected, responses, cleanupRuns, captured, sampled, slept, ghostVars>>

\* encoder.flush() resolves once every submitted frame has been output.
ClientFlushResolve ==
    /\ AwaitedBy("flush") /\ encoder = "configured" /\ encQueue = <<>>
    /\ call' = Settle("returned", NoError)
    /\ UNCHANGED <<orchVars, trackVars, fcsVars, loopVars, encVars, decVars, flashVars>>
    /\ UNCHANGED <<firstError, rejected, responses, cleanupRuns, captured, sampled, slept, ghostVars>>

\* encoder.flush() rejects when the encoder was closed by an error.
ClientFlushReject ==
    /\ AwaitedBy("flush") /\ encoder # "configured"
    /\ call' = Settle("threw", ErrFlushRejected)
    /\ UNCHANGED <<orchVars, trackVars, fcsVars, loopVars, encVars, decVars, flashVars>>
    /\ UNCHANGED <<firstError, rejected, responses, cleanupRuns, captured, sampled, slept, ghostVars>>

\* encoderService.dispose()
ClientEncoderDispose ==
    /\ ClientReady
    /\ EncoderDispose(TRUE)
    /\ call' = Returned("encoder.dispose")
    /\ UNCHANGED <<orchVars, trackVars, fcsVars, loopVars, decVars, flashVars>>
    /\ UNCHANGED <<firstError, rejected, responses, cleanupRuns, captured, sampled, slept, ghostVars>>

\* decoderService.initialize(codec, w, h), on a service that holds no decoder.
ClientDecoderInitialize ==
    /\ ClientReady /\ decoder = NULL
    /\ \E supported \in BOOLEAN:
        IF ~supported
        THEN /\ call' = Threw("decoder.initialize", ErrDecoderUnsupported)
             /\ UNCHANGED <<decoder, decodedFrames>>
        ELSE /\ decodedFrames' = <<>>
             /\ decoder' = "configured"
             /\ call' = Returned("decoder.initialize")
    /\ UNCHANGED <<decQueue, decoded, drawn>>
    /\ UNCHANGED <<orchVars, trackVars, fcsVars, loopVars, encVars, flashVars>>
    /\ UNCHANGED <<firstError, rejected, responses, cleanupRuns, captured, sampled, slept, ghostVars>>

\* The mutant of DecodeAndRenderCall: an empty chunk list is an error.
DecodeAndRenderCallChecksEmpty(chunks) ==
    IF decoder = NULL THEN Threw("decodeAndRender", ErrDecoderNotInit)
    ELSE IF chunks = <<>> THEN Threw("decodeAndRender", ErrNoChunks)
    ELSE IF decoder # "configured" THEN Threw("decodeAndRender", ErrDecodeRejected)
    ELSE [Pending("decodeAndRender") EXCEPT !.chunks = chunks]

\* decoderService.decodeAndRender(chunks, canvas) up to `await flush()`, as
\* the caller sees it: it throws without a decoder, decode() / flush() throw
\* on a closed decoder, and otherwise the call awaits the flush.
DecodeAndRenderCall(chunks) ==
    IF decoder = NULL THEN Threw("decodeAndRender", ErrDecoderNotInit)
    ELSE IF decoder # "configured" THEN Threw("decodeAndRender", ErrDecodeRejected)
    ELSE [Pending("decodeAndRender") EXCEPT !.chunks = chunks]

\* decoderService.decodeAndRender(chunks, canvas) up to `await flush()`:
\* every chunk is submitted, in order.
ClientDecodeAndRender ==
    /\ ClientReady
    /\ \E chunks \in ClientChunkLists:
        /\ call' = [DecodeAndRenderCall(chunks) EXCEPT !.chunks = chunks]
        /\ decQueue' = IF call'.st = "pending" THEN decQueue \o chunks ELSE decQueue
    /\ UNCHANGED <<decoder, decodedFrames, decoded, drawn>>
    /\ UNCHANGED <<orchVars, trackVars, fcsVars, loopVars, encVars, flashVars>>
    /\ UNCHANGED <<firstError, rejected, responses, cleanupRuns, captured, sampled, slept, ghostVars>>

\* decoder.flush() resolves; renderFrames() on a canvas that has a 2D context:
\* no frames is a warning; one frame is drawn and closed, without a sleep.
ClientDecodeResolve ==
    /\ AwaitedBy("decodeAndRender") /\ decoder = "configured" /\ decQueue = <<>>
    /\ Len(decodedFrames) <= 1
    /\ IF decodedFrames = <<>>
       THEN UNCHANGED <<decodedFrames, decoded, drawn, slept>>
       ELSE /\ slept' = 0
            /\ drawn' = Append(drawn, [frame |-> decodedFrames[1], at |-> 0])
            /\ decoded' = CloseIn(decoded, decodedFrames[1])
            /\ decodedFrames' = <<>>
    /\ call' = Settle("returned", NoError)
    /\ UNCHANGED <<decoder, decQueue>>
    /\ UNCHANGED <<orchVars, trackVars, fcsVars, loopVars, encVars, flashVars>>
    /\ UNCHANGED <<firstError, rejected, responses, cleanupRuns, captured, sampled, ghostVars>>

\* decoder.flush() rejects when the decoder was closed by an error.
ClientDecodeReject ==
    /\ AwaitedBy("decodeAndRender") /\ decoder # "configured"
    /\ call' = Settle("threw", ErrDecodeRejected)
    /\ UNCHANGED <<orchVars, trackVars, fcsVars, loopVars, encVars, decVars, flashVars>>
    /\ UNCHANGED <<firstError, rejected, responses, cleanupRuns, captured, sampled, slept, ghostVars>>

\* decoderService.dispose()
ClientDecoderDispose ==
    /\ ClientReady
    /\ DecoderDispose(TRUE)
    /\ call' = Returned("decoder.dispose")
    /\ UNCHANGED drawn
    /\ UNCHANGED <<orchVars, trackVars, fcsVars, loopVars, encVars, flashVars>>
    /\ UNCHANGED <<firstError, rejected, responses, cleanupRuns, captured, sampled, slept, ghostVars>>

NextCodecClient ==
    \/ ClientEncoderInitialize \/ ClientEncodeFrame \/ ClientFlush
    \/ ClientFlushResolve \/ ClientFlushReject \/ ClientEncoderDispose
    \/ ClientDecoderInitialize \/ ClientDecodeAndRender
    \/ ClientDecodeResolve \/ ClientDecodeReject \/ ClientDecoderDispose
    \/ EncoderOutput \/ EncoderError \/ DecoderOutput \/ DecoderError

SpecCodecClient == Init /\ [][NextCodecClient]_vars

\* ------------------------------------------- a caller of analyzeFrame()
\* What a call of analyzeFrame() can meet: any well-formed answer with a
\* confidence within the bound, or one of the failures.
AnalyzeInputs ==
    {Json(face, facing, conf): face \in BOOLEAN, facing \in BOOLEAN,
                               conf \in -MaxRawConfidence..MaxRawConfidence}
    \cup {r \in ClassifierResponses: r.kind = "error"}

\* faceDetectionService.analyzeFrame(frame) settles for a caller that holds
\* a frame of its own (frame 0); `responses` is the caller's last call.
ClientAnalyzeFrame ==
    /\ ClientReady
    /\ \E resp \in AnalyzeInputs:
        LET out == AnalyzeFrame(resp) IN
        /\ responses' = <<Analyzed(resp, 0)>>
        /\ call' = IF out.threw THEN Threw("analyzeFrame", out.error)
                                ELSE Returned("analyzeFrame")
    /\ UNCHANGED <<orchVars, trackVars, fcsVars, loopVars, encVars, decVars, flashVars>>
    /\ UNCHANGED <<firstError, rejected, cleanupRuns, captured, sampled, slept, ghostVars>>

NextAnalyzeClient == ClientAnalyzeFrame

SpecAnalyzeClient == Init /\ [][NextAnalyzeClient]_vars

\* ------------------------------------ a caller of ScreenFlashController
\* A caller that holds a ScreenFlashController (its constructor has created
\* the overlay, hidden) and calls show(), hide(), setColor(c) and dispose()
\* in any order.  timeline records the calls made.
FlashCall(ev, c) ==
    /\ ClientReady
    /\ call' = Returned(ev)
    /\ timeline' = Append(timeline, Event(ev, 0, c, 0))
    /\ UNCHANGED <<orchVars, trackVars, fcsVars, loopVars, encVars, decVars>>
    /\ UNCHANGED <<firstError, rejected, responses, cleanupRuns, captured, sampled,
                   slept, runs, onValidationCalls>>
    /\ UNCHANGED progress

ClientShow ==
    /\ FlashCall("show", "none")
    /\ display' = FlashShow
    /\ UNCHANGED <<overlay, color>>

ClientHide ==
    /\ FlashCall("hide", "none")
    /\ display' = FlashHide
    /\ UNCHANGED <<overlay, color>>

ClientSetColor ==
    \E c \in {BLACK, WHITE}:
        /\ FlashCall("setColor", c)
        /\ color' = FlashSetColor(c)
        /\ UNCHANGED <<overlay, display>>

ClientFlashDispose ==
    /\ FlashCall("flash.dispose", "none")
    /\ FlashDispose(TRUE)
    /\ UNCHANGED <<display, color>>

NextFlashClient == ClientShow \/ ClientHide \/ ClientSetColor \/ ClientFlashDispose

SpecFlashClient == Init /\ [][NextFlashClient]_vars
\* ------------------------------------------ a caller of getBestDevice()
\* The video input devices enumerateDevices() can report: each has a label
\* that may hold a virtual-camera keyword and may hold a front-facing
\* keyword, the resolution its track reports, and whether a test stream can
\* be opened on it.  deviceId is the position in the enumeration.
RESOLUTIONS == {<<1280, 720>>, <<1920, 1080>>}
DeviceShapes ==
    [virtual: BOOLEAN, front: BOOLEAN, size: RESOLUTIONS, usable: BOOLEAN]
EnumeratedDevices ==
    UNION {{[k \in 1..n |-> [deviceId |-> k] @@ f[k]]: f \in [1..n -> DeviceShapes]}:
           n \in 0..MaxDevices}

Capability(d, w, h) ==
    [deviceId |-> d.deviceId, virtual |-> d.virtual, front |-> d.front,
     width |-> w, height |-> h]
Area(c) == c.width * c.height

\* getAvailableDevices() that opens a test stream on each device: a device
\* whose stream fails is skipped, the others carry their track's settings.
GetAvailableDevicesProbing(enum) ==
    LET RECURSIVE probe(_)
        probe(s) ==
            IF s = <<>> THEN <<>>
            ELSE IF Head(s).usable
                 THEN <<Capability(Head(s), Head(s).size[1], Head(s).size[2])>>
                      \o probe(Tail(s))
                 ELSE probe(Tail(s))
    IN  probe(enum)

\* getAvailableDevices() after the permission request: every device gets the
\* HD defaults.
GetAvailableDevicesDefaults(enum) ==
    [k \in DOMAIN enum |-> Capability(enum[k], 1280, 720)]

\* devices.filter(label holds no virtual-camera keyword), and the fallback.
Candidates(devices) ==
    LET realCameras == SelectSeq(devices, LAMBDA d: ~d.virtual)
    IN  IF Len(realCameras) > 0 THEN realCameras ELSE devices

\* Array.prototype.sort((a, b) => area(b) - area(a)): stable, descending.
RECURSIVE SortByResolution(_)
SortByResolution(s) ==
    IF s = <<>> THEN <<>>
    ELSE LET d == s[Len(s)]
             sorted == SortByResolution(SubSeq(s, 1, Len(s) - 1))
             before == SelectSeq(sorted, LAMBDA c: Area(c) >= Area(d))
             after == SelectSeq(sorted, LAMBDA c: Area(c) < Area(d))
         IN  before \o <<d>> \o after

Selected(d) == [threw |-> FALSE, error |-> NoError, device |-> d]
NotSelected(e) == [threw |-> TRUE, error |-> e, device |-> NULL]

\* getBestDevice() that sorts the candidates by resolution.
GetBestDeviceByResolution(devices) ==
    IF Len(devices) = 0 THEN NotSelected(ErrNoDevice)
    ELSE Selected(SortByResolution(Candidates(devices))[1])

\* getBestDevice() that prefers a front-facing label among the candidates.
GetBestDeviceByLabel(devices) ==
    IF Len(devices) = 0 THEN NotSelected(ErrNoDevice)
    ELSE LET frontCameras == SelectSeq(Candidates(devices), LAMBDA d: d.front)
         IN  Selected(IF Len(frontCameras) > 0 THEN frontCameras[1]
                      ELSE Candidates(devices)[1])

\* deviceManager.getBestDevice() settles for a caller.  `responses` is the
\* caller's last call: the manager it holds ("probing": the manager that
\* opens test streams and sorts by resolution; "defaults": the one that asks
\* for permission first, sets HD defaults and selects by label), whether the
\* permission request has succeeded, the devices enumerated, the list
\* getAvailableDevices() resolved with, and the outcome.
ClientGetBestDevice ==
    /\ ClientReady
    /\ \E manager \in IF responses = <<>> THEN {"probing", "defaults"}
                      ELSE {responses[1].manager},
          permission \in BOOLEAN, enum \in EnumeratedDevices:
        LET granted == IF manager = "probing" THEN TRUE
                       ELSE (responses # <<>> /\ responses[1].granted) \/ permission
            available == IF ~granted THEN <<>>
                         ELSE IF manager = "probing"
                              THEN GetAvailableDevicesProbing(enum)
                              ELSE GetAvailableDevicesDefaults(enum)
            out == IF ~granted THEN NotSelected(ErrPermissionDenied)
                   ELSE IF manager = "probing"
                        THEN GetBestDeviceByResolution(available)
                        ELSE GetBestDeviceByLabel(available)
        IN  /\ responses' = <<[manager |-> manager, granted |-> granted,
                               enumerated |-> enum, available |-> available,
                               out |-> out]>>
            /\ call' = IF out.threw THEN Threw("getBestDevice", out.error)
                                    ELSE Returned("getBestDevice")
    /\ UNCHANGED <<orchVars, trackVars, fcsVars, loopVars, encVars, decVars, flashVars>>
    /\ UNCHANGED <<firstError, rejected, cleanupRuns, captured, sampled, slept, ghostVars>>

NextDeviceClient == ClientGetBestDevice

SpecDeviceClient == Init /\ [][NextDeviceClient]_vars
\* ================================================================== claims
\* What cleanup() leaves behind: every service disposed, the stream's track
\* stopped and the stream handle cleared.
Disposed ==
    /\ isReading = FALSE /\ reader = NULL /\ videoTrack = NULL
    /\ encoder = NULL /\ encodedChunks = <<>> /\ encQueue = <<>>
    /\ decoder = NULL /\ decodedFrames = <<>>
    /\ overlay = NULL
    /\ mediaStream = NULL /\ trackState # "live"

\* C1: whenever execute() has settled, after success or after a failure in
\* any phase, cleanup has run: the frame capture service, the encoder, the
\* decoder and the flash controller are disposed, the acquired stream's track
\* is stopped and the stream handle is cleared.
C1_CleanupBeforeSettle == Settled => (cleanupRuns >= 1 /\ Disposed)

\* C1 witness: a run that failed in the capture loop (encodeFrame threw on a
\* closed encoder) has settled, with a track that had been acquired stopped.
C1_Witness ==
    pc = "failed" /\ firstError = ErrEncoderState /\ trackState = "ended"

\* The errors analyzeFrame() rethrows.
ClassifierErrors == {ErrApiTimeout, ErrApiKey, ErrRateLimit}

\* C2: execute() rejects with the very error the failing phase threw, only
\* after cleanup has finished, and a run in which a phase threw never
\* resolves.
C2_OriginalErrorAfterCleanup ==
    /\ rejected # NoError =>
          (pc = "failed" /\ rejected = firstError /\ cleanupRuns >= 1 /\ Disposed)
    /\ (Settled /\ firstError # NoError) => (pc = "failed" /\ rejected = firstError)
    /\ pc = "failed" => firstError # NoError

\* C2 witness: the flush of the encoder rejected and execute() rejected with
\* that error.
C2_Witness == pc = "failed" /\ rejected = ErrFlushRejected

\* C3: when the run has failed with E and a step of cleanup then fails,
\* execute() still rejects with E and the rest of cleanup is still done.
C3_CleanupFailureOnlyLogged ==
    pc = "failed" => (rejected = firstError /\ Disposed)

\* C4: every frame captureFrame() returned during the run has been released
\* exactly once by the time execute() settles.
C4_CapturedFramesReleasedOnce ==
    Settled => \A k \in DOMAIN captured: captured[k].closed = 1

\* C5: every frame cloned for validation sampling has been released exactly
\* once by the time execute() settles.
C5_SampledFramesReleasedOnce ==
    Settled => \A k \in DOMAIN sampled: sampled[k].closed = 1

\* C6 as stated: no failure of a classifier call aborts the run.
C6_NoClassifierFailureAborts == firstError \notin ClassifierErrors

\* analyzeFrame() rethrows this failure / turns it into the fallback result.
Rethrown(resp) ==
    resp.kind = "error" /\ (resp.name = "AbortError" \/ resp.key \/ resp.rate)
Downgraded(resp) == resp.kind = "error" /\ ~Rethrown(resp)

\* C6 amended: a classifier failure that is neither a timeout nor an API-key
\* nor a rate-limit error becomes the invalid fallback result in that call's
\* place and does not abort the run; when no call met a rethrown failure the
\* remaining sampled frames are all classified and execute() resolves.  Only a
\* timeout, API-key or rate-limit failure aborts the run.
C6_DowngradedFailureDoesNotAbort ==
    /\ \A k \in DOMAIN responses:
          Downgraded(responses[k]) =>
              /\ k <= Len(validationResults)
              /\ validationResults[k].isValid = FALSE
              /\ validationResults[k].reason = "Analysis failed"
    /\ \A k \in DOMAIN responses: Rethrown(responses[k]) => k = Len(responses)
    /\ firstError \in ClassifierErrors =>
          (responses # <<>> /\ Rethrown(responses[Len(responses)]))
    /\ (Settled /\ responses # <<>> /\ ~Rethrown(responses[Len(responses)])) =>
          (pc = "completed" /\ Len(validationResults) = Len(sampled))

\* C6 witness: a run completed although a classifier call in the middle of
\* the sampled list failed and was downgraded.
C6_Witness ==
    /\ pc = "completed"
    /\ \E k \in DOMAIN responses: k < Len(responses) /\ Downgraded(responses[k])

\* C7: the frame captureFrame() returned is a copy of one frame the consumer
\* had stored in the slot, unreleased when it was cloned; and no source frame
\* is ever closed while a capture's gate is unresolved.
C7_CloneOfOneLiveFrame ==
    /\ [](frame # NoCapture =>
            /\ frame.srcOpen
            /\ frame.src \in 1..produced
            /\ frame.src # rvalue)
    /\ [][(\E f \in DOMAIN srcClosed: srcClosed'[f] # srcClosed[f])
            => pendingGates = {}]_vars

\* C7 witness: a frame was captured after the consumer had replaced the
\* slot's frame, and the consumer holds the next frame, waiting at the gate.
C7_Witness ==
    frame # NoCapture /\ frame.src = 2 /\ rpc = "lock" /\ rvalue = 3

\* C8: no gate is left unresolved at any point where another task can run, so
\* at most one capture is in flight; a new gate is installed only when the
\* previous one is resolved; and the consumer replaces the slot's frame only
\* when no gate is unresolved.
C8_OneCaptureInFlight ==
    /\ [](pendingGates = {})
    /\ [][lockId' # lockId => (pendingGates = {} /\ lockId' = lockId + 1)]_vars
    /\ [][(rpc = "lock" /\ rpc' # "lock") => (pendingGates = {} /\ rawait = 0)]_vars

\* C8 witness: the consumer waits at the gate after two captures.
C8_Witness == lockId >= 2 /\ rpc = "lock"

\* C9: once dispose() has run the slot stays empty, and when the consumer has
\* left its loop every frame it read has been released.
C9_DisposedHoldsNoFrame ==
    (cleanupRuns >= 1 /\ ~isReading) =>
        /\ currentFrame = NoFrame
        /\ rpc \in {"none", "exit"} => \A f \in 1..produced: srcClosed[f] = 1

\* C10: the slot holds nothing or one unreleased frame; a frame that was in
\* the slot and was replaced (or dropped by dispose) has been released
\* exactly once; no frame is released twice.
C10_SlotHoldsOneLiveFrame ==
    \A f \in 1..produced:
        IF f = currentFrame \/ f = rvalue
        THEN srcClosed[f] = 0
        ELSE srcClosed[f] = 1

\* C10 witness: the consumer replaced frame 1 by frame 2.
C10_Witness == currentFrame = 2 /\ srcClosed[1] = 1

\* The step is a call of captureFrame().
CaptureFrameCalled == call' # call /\ call'.op = "captureFrame"

\* C11: captureFrame() called on an empty slot throws the no-frame error,
\* returns no frame and changes nothing in the service; and it does so on a
\* service that has never been initialized and on one that was disposed.
C11_NoFrameWhenSlotEmptyOrDisposed ==
    [][CaptureFrameCalled =>
          /\ currentFrame = NoFrame =>
                /\ call'.st = "threw" /\ call'.err = ErrNoFrame
                /\ UNCHANGED <<fcsVars, loopVars, trackVars, captured, frame>>
          /\ (~isReading /\ reader = NULL) =>
                (call'.st = "threw" /\ call'.err = ErrNoFrame)]_vars

\* C11, the part about the slot alone: an empty slot makes captureFrame()
\* throw the no-frame error and change nothing.
C11_NoFrameWhenSlotEmpty ==
    [][(CaptureFrameCalled /\ currentFrame = NoFrame) =>
          /\ call'.st = "threw" /\ call'.err = ErrNoFrame
          /\ UNCHANGED <<fcsVars, loopVars, trackVars, captured, frame>>]_vars

\* C12: frameCaptureService.initialize() resolves only with a frame in the
\* slot; it rejects with the first-frame timeout error exactly when the slot
\* is still empty once 5000 ms of 50 ms polls have passed; and the wait never
\* lasts longer than the timeout plus one poll interval.
C12_FirstFrameOrTimeout ==
    /\ [](pc = "waitFirst" => waited < FIRST_FRAME_TIMEOUT_MS)
    /\ [][(pc \in {"acquire", "waitFirst"} /\ pc' = "initEncoder")
            => currentFrame # NoFrame]_vars
    /\ [][(pc = "waitFirst" /\ pc' # "waitFirst") =>
            /\ waited + FIRST_FRAME_POLL_INTERVAL_MS
                  <= FIRST_FRAME_TIMEOUT_MS + FIRST_FRAME_POLL_INTERVAL_MS
            /\ IF currentFrame = NoFrame
               THEN /\ pc' = "catch" /\ error' = ErrFirstFrameTimeout
                    /\ waited + FIRST_FRAME_POLL_INTERVAL_MS >= FIRST_FRAME_TIMEOUT_MS
               ELSE pc' = "initEncoder"]_vars

\* C12 witness: initialize() rejected with the timeout error, the slot empty.
C12_Witness ==
    pc = "catch" /\ error = ErrFirstFrameTimeout /\ currentFrame = NoFrame

\* The step is a new call of method op.
Called(op) == call'.n = call.n + 1 /\ call'.op = op

\* C13: a service that was never initialized, or was disposed, holds no codec;
\* encodeFrame() and flush() on an encoder service without an encoder, and
\* decodeAndRender() on a decoder service without a decoder, throw the
\* not-initialized error, submit nothing and add no chunk or decoded frame.
C13_NotInitialized ==
    /\ [](call.n = 0 => (encoder = NULL /\ decoder = NULL))
    /\ []((call.op = "encoder.dispose" \/ encoder = NULL) =>
              (encoder = NULL /\ encQueue = <<>> /\ encodedChunks = <<>>))
    /\ []((call.op = "decoder.dispose" \/ decoder = NULL) =>
              (decoder = NULL /\ decQueue = <<>> /\ decodedFrames = <<>>))
    /\ [][((Called("encodeFrame") \/ Called("flush")) /\ encoder = NULL) =>
              /\ call'.st = "threw" /\ call'.err = ErrEncoderNotInit
              /\ UNCHANGED <<encVars, decVars>>]_vars
    /\ [][(Called("decodeAndRender") /\ decoder = NULL) =>
              /\ call'.st = "threw" /\ call'.err = ErrDecoderNotInit
              /\ UNCHANGED <<encVars, decVars>>]_vars

\* C13 witness: encodeFrame() threw the not-initialized error as the fourth
\* call on a service, after an encodeFrame() that had succeeded (its frame is
\* closed) and a dispose().
C13_Witness ==
    /\ call.op = "encodeFrame" /\ call.st = "threw" /\ call.err = ErrEncoderNotInit
    /\ call.n = 4 /\ Len(captured) = 2 /\ captured[1].closed = 1

\* C14: a successful encodeFrame(frame, k) submits the frame and closes it
\* exactly once, whether or not a keyframe is requested; the caller holds the
\* frame no longer; and a captured frame is closed only in the step that
\* submits it, never earlier and never a second time.
C14_EncodeFrameReleasesOnce ==
    /\ [](\A k \in DOMAIN captured: captured[k].closed <= 1)
    /\ [][\A k \in DOMAIN captured:
            captured'[k].closed # captured[k].closed =>
                /\ captured[k].closed = 0 /\ captured'[k].closed = 1
                /\ frame.id = k
                /\ encQueue' = Append(encQueue, [frame |-> k, key |-> (i = 0)])]_vars
    /\ [][Len(encQueue') > Len(encQueue) =>
            /\ captured'[encQueue'[Len(encQueue')].frame].closed = 1
            /\ frame' = NoCapture]_vars

\* C14 witness: the frames of step 0 (keyframe requested) and of step 1 (no
\* keyframe requested) were both submitted and are both closed.
C14_Witness ==
    /\ pc = "interval" /\ i = 1 /\ Len(captured) = 2
    /\ captured[1].closed = 1 /\ captured[2].closed = 1

\* C15: encodedChunks only grows at its end while the encoder lives, by the
\* chunk the encoder emits for the oldest submitted frame, with that chunk's
\* timestamp (its frame) and kind; the k-th chunk belongs to the k-th
\* submitted frame; and when flush() has resolved every submitted frame has
\* its chunk.
C15_ChunksInSubmissionOrder ==
    /\ [][encodedChunks' # encodedChunks =>
            \/ encodedChunks' = <<>> /\ encoder' # encoder
            \/ /\ encQueue # <<>>
               /\ encodedChunks' =
                     Append(encodedChunks, [frame |-> Head(encQueue).frame,
                                            type |-> ChunkType(Head(encQueue))])
               /\ encQueue' = Tail(encQueue)]_vars
    /\ [](\A k \in DOMAIN encodedChunks: encodedChunks[k].frame = k)
    /\ [](\A k \in DOMAIN encQueue: encQueue[k].frame = Len(encodedChunks) + k)
    /\ [](pc = "decode" =>
            (encQueue = <<>> /\ Len(encodedChunks) = Len(captured)))

\* C15 witness: flush() has resolved and the last chunk is the one of the
\* last submitted frame.
C15_Witness ==
    /\ pc = "decode" /\ encQueue = <<>>
    /\ encodedChunks[FRAME_COUNT].frame = FRAME_COUNT

\* C16: when the run reaches decoding, the encoder's chunk sequence has one
\* chunk for each step of the flash pattern (20), the k-th chunk being that
\* of the frame captured at step k, and exactly these chunks are handed to
\* the decoder, in order.
C16_OneChunkPerCapturePoint ==
    /\ [](pc \in {"decode", "decodeCall"} =>
            /\ Len(encodedChunks) = Len(FLASH_PATTERN)
            /\ Len(encodedChunks) = FRAME_COUNT
            /\ Len(captured) = FRAME_COUNT
            /\ \A k \in DOMAIN encodedChunks: encodedChunks[k].frame = k)
    /\ [][(pc = "decodeCall" /\ pc' = "decodeFlush") =>
            decQueue' = [k \in 1..FRAME_COUNT |-> k]]_vars

\* C16 witness: the twenty chunks have been submitted to the decoder.
C16_Witness == pc = "decodeFlush" /\ Len(decQueue) = FRAME_COUNT

\* C17: the frame of capture step 0, the first one submitted in the session,
\* is submitted with a keyframe request and no later frame is; the first
\* chunk of encodedChunks is a key chunk.
C17_FirstFrameIsKey ==
    /\ [][Len(encQueue') > Len(encQueue) =>
            LET sub == encQueue'[Len(encQueue')] IN
                /\ sub.key = (i = 0)
                /\ sub.key = (sub.frame = 1)]_vars
    /\ [](\A k \in DOMAIN encQueue: encQueue[k].key = (encQueue[k].frame = 1))
    /\ [](encodedChunks # <<>> => encodedChunks[1].type = "key")

\* C17 witness: the first chunk has been emitted and the second frame, not a
\* keyframe, is waiting in the encoder.
C17_Witness ==
    /\ Len(encodedChunks) = 1 /\ encodedChunks[1].type = "key"
    /\ encQueue # <<>> /\ ~encQueue[1].key

\* C18: when the runtime reports the configuration as unsupported, encoder
\* initialize() throws the unsupported-codec error and creates no encoder, and
\* the run never shows the flash overlay nor captures a frame; decoder
\* initialize() likewise throws its unsupported-codec error and creates no
\* decoder, and the run never submits a chunk nor draws a frame.
C18_UnsupportedCodec ==
    /\ [][(pc = "initEncoder" /\ error' = ErrCodecUnsupported) =>
            (pc' = "catch" /\ encoder = NULL /\ UNCHANGED encVars)]_vars
    /\ [][(pc = "decode" /\ error' = ErrDecoderUnsupported) =>
            (pc' = "catch" /\ decoder = NULL /\ UNCHANGED decVars)]_vars
    /\ [](firstError = ErrCodecUnsupported =>
            /\ encoder = NULL /\ encQueue = <<>> /\ encodedChunks = <<>>
            /\ captured = <<>> /\ display = "none" /\ color = "none"
            /\ pc \in {"catch", "rethrow", "failed"})
    /\ [](firstError = ErrDecoderUnsupported =>
            /\ decoder = NULL /\ decQueue = <<>> /\ decoded = <<>> /\ drawn = <<>>
            /\ pc \in {"catch", "rethrow", "failed"})

\* C18 witness: encoder initialize() threw the unsupported-codec error on a
\* camera that delivers frames, and no encoder exists.
C18_Witness ==
    /\ pc = "catch" /\ error = ErrCodecUnsupported
    /\ encoder = NULL /\ currentFrame # NoFrame

C20_PacedRenderInChunkOrder ==
    /\ [][drawn' # drawn =>
            /\ decQueue = <<>> /\ decoder = "configured"
            /\ Len(drawn') = Len(drawn) + 1
            /\ \A k \in DOMAIN drawn: drawn'[k] = drawn[k]]_vars
    /\ [](\A k \in DOMAIN drawn: decoded[drawn[k].frame].chunk = k)
    /\ [](pc \in {"validate", "analyze", "cleanup"} =>
            /\ Len(drawn) = FRAME_COUNT
            /\ Len(drawn) = Len(encodedChunks))
    /\ [](\A k \in DOMAIN drawn:
            k > 1 => drawn[k].at - drawn[k - 1].at >= FRAME_PLAYBACK_INTERVAL_MS)

\* C20 witness: the third frame has been drawn, 1000 ms after the first.
C20_Witness ==
    /\ pc = "render" /\ Len(drawn) = 3
    /\ drawn[3].at - drawn[1].at = 2 * FRAME_PLAYBACK_INTERVAL_MS

\* C21: every frame the decoder has output is released exactly once: never
\* twice, once by the time the run has settled, and a frame that was drawn
\* is released before the next one is drawn; this also when rendering fails
\* part-way and dispose() runs afterwards.
C21_DecodedFramesReleasedOnce ==
    /\ \A k \in DOMAIN decoded: decoded[k].closed <= 1
    /\ Settled => \A k \in DOMAIN decoded: decoded[k].closed = 1
    /\ \A k \in DOMAIN drawn:
          k < Len(drawn) => decoded[drawn[k].frame].closed >= 1

\* C22: when the encoder's chunk sequence is empty after the capture phase,
\* Step 4 throws the no-encoded-data error before the decoder is initialized
\* or any chunk is decoded; nothing is drawn, validation is skipped, cleanup
\* runs and execute() rejects with that error.
C22_NoEncodedDataBeforeDecoder ==
    /\ [][(pc = "decode" /\ encodedChunks = <<>> /\ pc' # pc) =>
            (pc' = "catch" /\ error' = ErrNoChunks /\ UNCHANGED decVars)]_vars
    /\ [](firstError = ErrNoChunks =>
            /\ decoder = NULL /\ decQueue = <<>> /\ decoded = <<>> /\ drawn = <<>>
            /\ responses = <<>> /\ validationResults = <<>>
            /\ pc \in {"catch", "rethrow", "failed"})
    /\ [](firstError = ErrNoChunks /\ Settled =>
            /\ pc = "failed" /\ rejected = ErrNoChunks
            /\ cleanupRuns = 1 /\ Disposed)

\* C22 witness: a run that captured and submitted every frame, got no chunk,
\* and was rejected with the no-encoded-data error.
C22_Witness ==
    /\ pc = "failed" /\ rejected = ErrNoChunks
    /\ Len(captured) = FRAME_COUNT /\ cleanupRuns = 1

\* The errors analyzeFrame() rethrows: the failures of Step 5.
ValidationErrors == {ErrApiTimeout, ErrApiKey, ErrRateLimit}
\* The errors of Step 1 (camera), Step 2 (encoder) and Step 3 (capture).
CameraErrors == {ErrNoDevice, ErrGetUserMedia, ErrFirstFrameTimeout}
CaptureErrors == {ErrNoFrame, ErrEncoderNotInit, ErrEncoderState,
                  ErrFlushState, ErrFlushRejected}

\* C23: when Step 1, 2, 3 or 4 throws, the run aborts at once: execute() is
\* in its catch clause and goes from there to cleanup and the rethrow only,
\* no later phase has started or starts, analyzeFrame() is never called in
\* the run and the validation callback is not invoked.
C23_EarlyFailureAborts ==
    /\ [](firstError # NoError /\ firstError \notin ValidationErrors =>
            /\ pc \in {"catch", "rethrow", "failed"}
            /\ responses = <<>> /\ onValidationCalls = <<>>
            /\ validationResults = <<>>)
    /\ [](firstError \in CameraErrors =>
            encoder = NULL /\ timeline = <<>> /\ captured = <<>>)
    /\ [](firstError \in CameraErrors \cup {ErrCodecUnsupported} \cup CaptureErrors =>
            decoder = NULL /\ decoded = <<>> /\ drawn = <<>>)
    /\ [][pc = "catch" /\ pc' # pc =>
            pc' = "rethrow" /\ cleanupRuns' = cleanupRuns + 1]_vars
    /\ [][pc = "rethrow" /\ pc' # pc => pc' = "failed" /\ rejected' = error]_vars

\* C23 witness: with a classifier configured and a sampled frame waiting,
\* the decoder's flush rejected and the run failed without any classification.
C23_Witness ==
    /\ pc = "failed" /\ firstError = ErrDecodeRejected
    /\ faceDetectionService # NULL /\ sampled # <<>>
    /\ responses = <<>> /\ onValidationCalls = <<>>

\* C24: without a classifier no frame is cloned or kept for validation, the
\* validating phase is skipped (no analyzeFrame() call, no result, no
\* validation callback), and when Step 4 succeeds execute() goes from
\* decoding to cleanup and then completes.
C24_NoClassifierSkipsValidation ==
    /\ [](faceDetectionService = NULL =>
            /\ sampled = <<>> /\ capturedFramesForValidation = <<>>
            /\ responses = <<>> /\ validationResults = <<>>
            /\ onValidationCalls = <<>>
            /\ pc \notin {"validate", "analyze"}
            /\ firstError \notin ValidationErrors)
    /\ [][(faceDetectionService = NULL /\ pc \in {"decodeFlush", "render"}
           /\ pc' \notin {"decodeFlush", "render", "catch"}) => pc' = "cleanup"]_vars
    /\ [][(faceDetectionService = NULL /\ pc = "cleanup" /\ pc' # pc) =>
            pc' = "complete"]_vars
    /\ [][(faceDetectionService = NULL /\ pc = "complete" /\ pc' # pc) =>
            pc' = "completed"]_vars

\* C24 witness: a run without a classifier has completed, all 20 frames
\* captured and drawn.
C24_Witness ==
    /\ pc = "completed" /\ faceDetectionService = NULL
    /\ Len(captured) = FRAME_COUNT /\ Len(drawn) = FRAME_COUNT

\* C25: with a classifier configured the validation results correspond one
\* to one, in order, to the sampled frames: the k-th sampled frame is the
\* clone of the frame of capture point 5(k - 1) (capture points 0, 5, 10,
\* 15), the k-th analyzeFrame() call is given the k-th sampled frame, the
\* k-th result is the result of that call, and a run that gets past
\* validation has exactly 4 results, which the validation callback receives.
C25_ResultsMatchSampledFrames ==
    /\ \A k \in DOMAIN sampled: sampled[k].of = 5 * (k - 1) + 1
    /\ \A k \in DOMAIN responses: responses[k].frame = k
    /\ Len(validationResults) <= Len(responses)
    /\ \A k \in DOMAIN validationResults:
          /\ ~AnalyzeFrame(responses[k]).threw
          /\ validationResults[k] = AnalyzeFrame(responses[k]).result
    /\ (faceDetectionService # NULL /\ pc \in {"cleanup", "complete", "completed"}) =>
          /\ Len(sampled) = 4 /\ Len(validationResults) = 4
          /\ onValidationCalls = <<validationResults>>

\* C25 witness: a completed run with a classifier whose four results are not
\* all alike.
C25_Witness ==
    /\ pc = "completed" /\ faceDetectionService # NULL
    /\ Len(validationResults) = 4
    /\ validationResults[1] # validationResults[2]
    /\ validationResults[3].isValid /\ ~validationResults[4].isValid

\* A result of analyzeFrame() is well formed: isValid is hasFace and
\* isFacingCamera, and the confidence is within 0..1 (0..10 tenths).
WellFormedResult(r) ==
    /\ r.isValid = (r.hasFace /\ r.isFacingCamera)
    /\ 0 <= r.confidence /\ r.confidence <= 10

\* C26: every result analyzeFrame() returns, the fallback result included,
\* has isValid = (hasFace and isFacingCamera) and a confidence in [0, 1].
C26_ResultWellFormed ==
    /\ \A k \in DOMAIN responses:
          ~responses[k].out.threw => WellFormedResult(responses[k].out.result)
    /\ \A k \in DOMAIN validationResults: WellFormedResult(validationResults[k])

\* C26 witness: analyzeFrame() returned for an answer with a face not facing
\* the camera and a raw confidence of 1.5: invalid, confidence 1.
C26_Witness ==
    /\ call.op = "analyzeFrame" /\ call.st = "returned"
    /\ responses[1].kind = "json" /\ responses[1].confidence = 15
    /\ responses[1].hasFace /\ ~responses[1].isFacingCamera
    /\ ~responses[1].out.result.isValid
    /\ responses[1].out.result.confidence = 10

\* C27: the capture phase calls, per step i of the pattern and in this
\* order, setColor(pattern[i]), captureFrame() and encodeFrame() once each:
\* the capture point of step i comes at least 50 ms after setColor(pattern[i])
\* and before setColor(pattern[i + 1]), the frame encoded in a step is the
\* frame captured in it, and a capture phase that ends without an error has
\* made exactly L = 20 setColor calls, pattern[0..L-1] in order.
C27_OneCapturePerPatternStep ==
    /\ Len(timeline) <= 3 * Len(FLASH_PATTERN)
    /\ \A p \in DOMAIN timeline:
          LET step == (p - 1) \div 3
              e == timeline[p]
          IN /\ e.step = step
             /\ (p - 1) % 3 = 0 =>
                   /\ e.ev = "setColor" /\ e.arg = FLASH_PATTERN[step + 1]
                   /\ p > 1 => e.at >= timeline[p - 1].at
             /\ (p - 1) % 3 = 1 =>
                   /\ e.ev = "captureFrame"
                   /\ e.at >= timeline[p - 1].at + 50
             /\ (p - 1) % 3 = 2 =>
                   /\ e.ev = "encodeFrame" /\ e.arg = timeline[p - 1].arg
                   /\ e.arg = step + 1
    /\ pc \in {"flushCall", "flush", "decode"} =>
          /\ Len(timeline) = 3 * Len(FLASH_PATTERN)
          /\ Len(captured) = Len(FLASH_PATTERN)

\* C27 witness: the capture loop has ended after its 20 steps.
C27_Witness ==
    /\ pc = "flushCall" /\ Len(timeline) = 60
    /\ timeline[58].ev = "setColor" /\ timeline[58].step = 19 /\ timeline[58].arg = 1
    /\ timeline[59].ev = "captureFrame" /\ timeline[59].at = timeline[58].at + 50

C29_ResultsOfMostRecentRun ==
    Settled =>
        /\ Len(validationResults) <= Len(responses)
        /\ \A k \in DOMAIN validationResults:
              /\ ~responses[k].out.threw
              /\ validationResults[k] = responses[k].out.result

\* C30: the progress callback is purely observational: whatever it does
\* (absent, returning, throwing), the run goes through the same phases,
\* releases its resources once and has the same outcome, so execute() never
\* fails with the callback's error, a run whose cleanup has completed
\* without an error resolves, and cleanup runs once.
C30_ProgressObservational ==
    /\ [](firstError # ErrOnProgress /\ rejected # ErrOnProgress)
    /\ [](cleanupRuns <= 1)
    /\ [][(pc = "complete" /\ pc' # pc) => pc' = "completed"]_vars

PHASE_ORDER ==
    [idle |-> {"acquire"},
     acquire |-> {"waitFirst", "initEncoder", "catch"},
     waitFirst |-> {"waitFirst", "initEncoder", "catch"},
     initEncoder |-> {"startCapture", "catch"},
     startCapture |-> {"capture"},
     capture |-> {"encode", "catch"},
     encode |-> {"interval", "flushCall", "catch"},
     interval |-> {"capture"},
     flushCall |-> {"flush", "catch"},
     flush |-> {"decode", "catch"},
     decode |-> {"decodeCall", "catch"},
     decodeCall |-> {"decodeFlush", "catch"},
     decodeFlush |-> {"render", "validate", "cleanup", "catch"},
     render |-> {"render", "validate", "cleanup"},
     validate |-> {"analyze", "cleanup"},
     analyze |-> {"analyze", "cleanup", "catch"},
     cleanup |-> {"complete"},
     complete |-> {"completed"},
     completed |-> {},
     catch |-> {"rethrow"},
     rethrow |-> {"failed"},
     failed |-> {}]

\* C32: a run goes through its phases in their order only, a phase entered
\* only from the success of the one before; the encoder's chunks are read
\* and the decoder initialized only after flush() has resolved (every
\* submitted frame output); validation is entered only with a classifier;
\* and execute() resolves only if no phase raised an error.
C32_PhasesInOrder ==
    /\ [][pc' # pc => pc' \in PHASE_ORDER[pc]]_vars
    /\ [][(pc' = "decode" /\ pc # "decode") =>
            (pc = "flush" /\ encoder = "configured" /\ encQueue = <<>>)]_vars
    /\ [](decoder # NULL =>
            pc \notin {"idle", "acquire", "waitFirst", "initEncoder", "startCapture",
                       "capture", "encode", "interval", "flushCall", "flush"})
    /\ [](pc \in {"validate", "analyze"} => faceDetectionService # NULL)
    /\ [](pc \in {"cleanup", "complete", "completed"} =>
            firstError = NoError /\ rejected = NoError)
    /\ [](pc = "failed" => firstError # NoError /\ rejected # NoError)

\* C32 witness: a run with a classifier went through every phase and
\* resolved.
C32_Witness ==
    /\ pc = "completed" /\ faceDetectionService # NULL
    /\ Len(timeline) = 3 * FRAME_COUNT /\ Len(encodedChunks) = 0
    /\ Len(drawn) = FRAME_COUNT /\ Len(responses) = 4 /\ cleanupRuns = 1

C34_DisposeIdempotent ==
    [][Called("dispose") =>
          /\ call'.st = "returned"
          /\ currentFrame' = NoFrame /\ reader' = NULL /\ videoTrack' = NULL
          /\ ~isReading'
          /\ \A f \in 1..produced: srcClosed'[f] <= 1
          /\ call.op = "dispose" => UNCHANGED <<srcClosed, trackStops>>]_vars

\* The same for the encoder and the decoder: dispose() returns, the codec
\* instance is dropped, the chunk list and the frame list are empty, every
\* buffered frame is closed once, and a dispose() following a dispose() of
\* the same service changes nothing.
C34_CodecDisposeIdempotent ==
    /\ [][Called("encoder.dispose") =>
            /\ call'.st = "returned"
            /\ encoder' = NULL /\ encodedChunks' = <<>> /\ encQueue' = <<>>
            /\ call.op = "encoder.dispose" => UNCHANGED encVars]_vars
    /\ [][Called("decoder.dispose") =>
            /\ call'.st = "returned"
            /\ decoder' = NULL /\ decodedFrames' = <<>>
            /\ \A k \in DOMAIN decoded: decoded'[k].closed = 1
            /\ call.op = "decoder.dispose" => UNCHANGED decVars]_vars

\* The overlay is on screen: it exists and its display style is 'block'.
FlashVisible == overlay # NULL /\ display = "block"

\* The calls made on the controller before its first dispose().
BeforeDispose ==
    LET d == {k \in DOMAIN timeline: timeline[k].ev = "flash.dispose"}
    IN  IF d = {} THEN timeline
        ELSE SubSeq(timeline, 1, (CHOOSE k \in d: \A m \in d: k <= m) - 1)

\* The last call of h whose name is in evs (a "none" event if there is none).
LastCall(h, evs) ==
    LET s == {k \in DOMAIN h: h[k].ev \in evs}
    IN  IF s = {} THEN Event("none", 0, "none", 0)
        ELSE h[CHOOSE k \in s: \A m \in s: m <= k]

\* C35: whatever show(), hide() and setColor() calls are made, no call
\* throws; until dispose() the overlay is visible exactly when the most recent
\* of show()/hide() was show() (hidden at first) and has the colour of the
\* most recent setColor(); dispose() removes the overlay, and the calls made
\* after it change nothing.
C35_OverlayFollowsCalls ==
    LET disposed == Len(BeforeDispose) < Len(timeline)
    IN  /\ call.st # "threw"
        /\ (display = "block") <=> (LastCall(BeforeDispose, {"show", "hide"}).ev = "show")
        /\ color = LastCall(BeforeDispose, {"setColor"}).arg
        /\ (overlay = NULL) <=> disposed
        /\ disposed => ~FlashVisible

\* show(), setColor(WHITE), dispose() and then hide(): the overlay is gone
\* and the style the last show() set is still what the controller holds.
C35_Witness ==
    /\ Len(timeline) = 4
    /\ timeline[1].ev = "show" /\ timeline[2].ev = "setColor"
    /\ timeline[2].arg = WHITE
    /\ timeline[3].ev = "flash.dispose" /\ timeline[4].ev = "hide"
    /\ overlay = NULL /\ display = "block" /\ color = WHITE

\* The candidates of a selection: the non-virtual cameras if there are any,
\* all devices otherwise.
CandidateSet(devices) ==
    LET all == {devices[k]: k \in DOMAIN devices}
        real == {d \in all: ~d.virtual}
    IN  IF real # {} THEN real ELSE all

\* getBestDevice() returned one of `devices`, a candidate of the highest
\* resolution.
ReturnedBest(devices) ==
    /\ call.st = "returned"
    /\ responses[1].out.device \in CandidateSet(devices)
    /\ \A c \in CandidateSet(devices): Area(c) <= Area(responses[1].out.device)

\* C36: getBestDevice() rejects with 'No video devices available' when no
\* video device is enumerated, and otherwise returns an enumerated device
\* that has the highest resolution among the candidates.
C36_BestDevice ==
    call.op = "getBestDevice" =>
        IF responses[1].available = <<>>
        THEN call.st = "threw" /\ call.err = ErrNoDevice
        ELSE ReturnedBest(responses[1].available)

\* The same, for the calls in which the enumeration took place.
C36_BestDeviceOnceEnumerated ==
    (call.op = "getBestDevice" /\ responses[1].granted) =>
        IF responses[1].available = <<>>
        THEN call.st = "threw" /\ call.err = ErrNoDevice
        ELSE ReturnedBest(responses[1].available)

\* C37: in each capture step the orchestrator waits 50 ms between setting
\* the indicator and capturing, does not wait between capturing and encoding,
\* and waits 450 ms after the encode before the next step; after the encode
\* of the last step it waits no more: it hides the indicator and calls
\* flush() at once.
C37_StepWaits ==
    /\ [][(pc = "capture" /\ pc' # pc) => slept' = slept + 50]_vars
    /\ [][(pc = "encode" /\ pc' # pc) =>
            /\ slept' = slept
            /\ pc' = "interval" => i < 19
            /\ pc' = "flushCall" => i = 19]_vars
    /\ [][(pc = "interval" /\ pc' # pc) =>
            /\ pc' = "capture" /\ i' = i + 1
            /\ slept' = slept + 450]_vars
    /\ [][(pc = "flushCall" /\ pc' # pc) =>
            /\ slept' = slept /\ display' = "none"
            /\ timeline[Len(timeline)].ev = "encodeFrame"
            /\ timeline[Len(timeline)].at = slept
            /\ pc' \in {"flush", "catch"}]_vars

\* C37 witness: flush() has been called, the indicator hidden, with no wait
\* after the encode of step 19.
C37_Witness ==
    /\ pc = "flush" /\ display = "none" /\ i = 19
    /\ Len(timeline) = 60 /\ timeline[60].ev = "encodeFrame"
    /\ timeline[60].at = slept /\ timeline[59].at = slept
    /\ timeline[58].at = slept - 50 /\ timeline[57].at = slept - 500

\* C38: at every capture point of every run of execute() - of a later run on
\* the same orchestrator too - the overlay is on screen and shows the colour
\* of pattern[i].
C38_OverlayShownAtCapture ==
    [][(pc = "capture" /\ pc' # pc) =>
          /\ FlashVisible
          /\ color = FlashColorOf(i)]_vars

\* C39: every run of execute() settles exactly once.  With every awaited call
\* settling and every timer firing, a run that has started reaches Completed
\* or Failed; the caller gets success (execute() resolves, no error) or one
\* error (execute() rejects with it), and the outcome does not change
\* afterwards.
C39_SettlesExactlyOnce ==
    /\ (pc # "idle") ~> Settled
    /\ [](pc = "completed" => rejected = NoError)
    /\ [](pc = "failed" => rejected # NoError)
    /\ [](~Settled => rejected = NoError)
    /\ [][Settled => (pc' = pc /\ rejected' = rejected)]_vars

\* C39 witness: a run has settled with the error of a decoder flush that
\* rejected, after one cleanup.
C39_Witness ==
    pc = "failed" /\ rejected = ErrDecodeRejected /\ cleanupRuns = 1 /\ runs = 1

\* round(20 + 50 (i + 1) / 20) for the capture steps i = 0..19.
STEP_PERCENTAGES ==
    <<23, 25, 28, 30, 33, 35, 38, 40, 43, 45, 48, 50, 53, 55, 58, 60, 63, 65, 68, 70>>

\* C40: the percentages a run reports are integers in 0..100 and never
\* decrease; the first is 0 and a successful run's last is 100; capture step
\* i reports round(20 + 50 (i + 1) / 20), after the five reports that precede
\* the capture loop; 100 is reported last, and only once cleanup() has
\* completed.
C40_ProgressMonotonic ==
    /\ \A k \in DOMAIN progress: progress[k] \in 0..100
    /\ \A k \in 1..(Len(progress) - 1): progress[k] <= progress[k + 1]
    /\ progress # <<>> => progress[1] = 0
    /\ \A k \in DOMAIN STEP_PERCENTAGES:
          Len(progress) >= 5 + k => progress[5 + k] = STEP_PERCENTAGES[k]
    /\ pc \in {"capture", "encode", "interval"} => Len(progress) = 5 + i
    /\ pc = "completed" => progress[Len(progress)] = 100
    /\ \A k \in DOMAIN progress:
          progress[k] = 100 =>
              k = Len(progress) /\ pc = "completed" /\ cleanupRuns = 1 /\ Disposed

\* C40 witness: a run without a classifier has completed, having reported 0
\* first, 23 for step 0, 70 for step 19 and 100 last.
C40_Witness ==
    /\ pc = "completed" /\ Len(progress) = 32
    /\ progress[1] = 0 /\ progress[6] = 23 /\ progress[25] = 70
    /\ progress[32] = 100
====
